---- MODULE Spec2Model ----
(***************************************************************************)
(* HyperDbg hypervisor core (hprdbghv): the per-processor virtualization   *)
(* lifecycle of Vmx.c and the configuration interface of Configuration.c.  *)
(*                                                                         *)
(* The driver thread runs VmxInitialize and VmxPerformTermination; the     *)
(* broadcasts they issue run one DPC per logical processor, in any order.  *)
(* A per-core routine is one action; the order of the VMX instructions it  *)
(* executes is kept in the core's log, each entry with the VMX mode and    *)
(* the VMCS state the instruction found.                                   *)
(***************************************************************************)
EXTENDS Integers, Sequences, FiniteSets, TLC

\* ------------------------------------------------------------------ bounds
NCores == 2
MaxRsp == 1
MaxPages == 2
\* How many allocations and VMX instructions of the per-core routines may fail in one run.
MaxFailures == 1
\* Guest memory for the string helpers: wide characters per page, pages,
\* and the most zero bytes in it.
PageWords == 1
MemPages == 2
MaxZeros == 2
\* The largest argument (bit mask, MSR, port) of a Configure... call.
MaxArg == 1
LowBits == 2
VMM_STACK_SIZE == 32
MaxBase == 15
MaxExits == 2

Cores == 0 .. (NCores - 1)
Rsps == 0 .. MaxRsp
Pages == 1 .. MaxPages
Cr3s == {"system", "user"}

\* ------------------------------------------------------- program constants
\* Guest RIP written by VmxSetupVmcs: the address of the AsmVmxRestoreState stub.
AsmVmxRestoreState == 0
\* The guest RIP a VMCALL exit saves: the address of the vmcall instruction
\* inside AsmVmxVmcall, which VmxInitialize and VmxTerminate call.
AsmVmxVmcallAddress == 1
\* VMCS_VMEXIT_INSTRUCTION_LENGTH of that exit: VMCALL is three bytes (0F 01 C1).
VmcallInstructionLength == 3
AsmVmexitHandler == 2
VPID_TAG == 1

VARIABLES
    pc,               \* where the driver thread is in VmxInitialize / VmxPerformTermination
    steps,            \* the initialization steps the driver has run, in order, with their results
    initRet,          \* what VmxInitialize returned: "none", "TRUE" or "FALSE"
    heap,             \* the global allocations: "none", "live" or "freed"
    core,             \* per logical processor: the CPU state and g_GuestState[core]
    pending,          \* the cores that have not yet run the DPC of the broadcast in flight
    HookedPagesList,  \* g_EptState->HookedPagesList (the hooked 4 KiB pages)
    transparent,      \* transparent mode is hiding the debugger
    failures,         \* how many failures the environment has injected so far
    writes,           \* the writes made to g_GuestState entries: by which core, and when
    EptLeaf,          \* the EPT leaf (PML1 entry) of each 4 KiB page
    HookedEntryDetails, \* per hooked page: the saved and the changed entry, MTF pending
    lastUnhook,       \* the page the last EptHookUnHookSingleAddress restored, or 0
    call,             \* the last call of a helper routine: its inputs and its outcome
    g_CheckPageFaultsAndMov2Cr3VmexitsWithUserDebugger,  \* the global flag
    Cr3LoadExiting,   \* per core: MOV-to-CR3 exiting is enabled in the core's VMCS
    Mov2Cr3Exit,      \* per core: the flag as the core's last MOV-to-CR3 exit found it, or "none"
    configure         \* the thread calling Configure...MovToCr3Exiting...: routine, cores pending

\* The state of MOV-to-CR3 exiting.
cr3Vars == <<g_CheckPageFaultsAndMov2Cr3VmexitsWithUserDebugger, Cr3LoadExiting, Mov2Cr3Exit,
             configure>>

vars == <<pc, steps, initRet, heap, core, pending, HookedPagesList, transparent, failures,
          writes, EptLeaf, HookedEntryDetails, lastUnhook, call, cr3Vars>>

\* The state of the EPT hooks.
hookVars == <<HookedPagesList, EptLeaf, HookedEntryDetails, lastUnhook, call, cr3Vars>>

\* Everything but the state of MOV-to-CR3 exiting.
hookVarsNoCr3 == <<HookedPagesList, EptLeaf, HookedEntryDetails, lastUnhook, call>>
vmxVarsNoCr3 == <<pc, steps, initRet, heap, core, pending, transparent, failures, writes>>

\* The driver's and the processors' state.
vmxVars == <<pc, steps, initRet, heap, core, pending, transparent, failures, writes, call,
             cr3Vars>>

GlobalRes == {"g_EptState", "EptPageTable", "PoolManager", "g_MsrBitmapInvalidMsrs", "g_GuestState"}
CoreRes == {"VmxonRegion", "VmcsRegion", "VmmStack", "MsrBitmap", "IoBitmapA", "IoBitmapB"}

\* ------------------------------------------------------------ one processor
\* g_GuestState is allocated (GlobalGuestStateAllocateZeroedMemory) before
\* VmxInitialize is called: every entry is zeroed, the core is outside VMX operation.
InitCore ==
    [cr4vmxe |-> FALSE, mode |-> "off", cr3 |-> "system", fault |-> FALSE,
     vmcs |-> "none",
     LinkPointer |-> "zero", GuestRip |-> 0, GuestRsp |-> 0,
     GuestCr3 |-> "none", HostCr3 |-> "none", ExitInstructionLength |-> 0,
     HasLaunched |-> FALSE,
     VmxoffState |-> [IsVmxoffExecuted |-> FALSE, GuestRip |-> 0, GuestRsp |-> 0],
     region |-> [r \in CoreRes |-> "none"],
     routine |-> "none", ret |-> "none", status |-> "none", log |-> <<>>]

\* An executed instruction is logged with the state it found.
Ev(s, op) ==
    [s EXCEPT !.log = Append(@, [op |-> op, mode |-> s.mode, vmcs |-> s.vmcs])]

Enter(s, name) ==
    [s EXCEPT !.routine = name, !.ret = "none", !.status = "none", !.log = <<>>]

Ret(s, v) == IF s.fault THEN s ELSE [s EXCEPT !.ret = v]

\* A VMX instruction outside VMX operation raises #UD; nothing in these
\* routines handles it, so the core stops there (bug check).
Ud(s, op) == [Ev(s, op) EXCEPT !.fault = TRUE]

\* ---------------------------------------------------------------- hardware
Vmxoff(s) ==
    IF s.fault THEN s
    ELSE IF s.mode = "off" THEN Ud(s, "VMXOFF")
    ELSE [Ev(s, "VMXOFF") EXCEPT !.mode = "off"]

Vmclear(s, ok) ==
    IF s.fault THEN s
    ELSE IF s.mode = "off" THEN Ud(s, "VMCLEAR")
    ELSE IF ok THEN [Ev(s, "VMCLEAR") EXCEPT !.vmcs = "clear"]
    ELSE Ev(s, "VMCLEAR_FAIL")

\* VMPTRLD checks the revision identifier of the region it is given: it
\* fails on a VMCS region that was never allocated and initialized.
Vmptrld(s, ok) ==
    IF s.fault THEN s
    ELSE IF s.mode = "off" THEN Ud(s, "VMPTRLD")
    ELSE IF ok /\ s.region["VmcsRegion"] = "live"
         THEN [Ev(s, "VMPTRLD") EXCEPT !.vmcs = "current"]
    ELSE Ev(s, "VMPTRLD_FAIL")

\* A successful VM entry loads the guest state of the VMCS.
VmEntry(s, op) ==
    [Ev(s, op) EXCEPT !.mode = "nonroot", !.vmcs = "launched", !.cr3 = s.GuestCr3]

Vmlaunch(s, ok) ==
    IF s.fault THEN s
    ELSE IF s.mode = "off" THEN Ud(s, "VMLAUNCH")
    ELSE IF ok THEN VmEntry(s, "VMLAUNCH")
    ELSE Ev(s, "VMLAUNCH_FAIL")

Vmresume(s, ok) ==
    IF s.fault THEN s
    ELSE IF s.mode = "off" THEN Ud(s, "VMRESUME")
    ELSE IF ok THEN VmEntry(s, "VMRESUME")
    ELSE Ev(s, "VMRESUME_FAIL")

VmreadInstructionError(s) ==
    IF s.fault THEN s
    ELSE IF s.mode = "off" THEN Ud(s, "VMREAD_ERROR")
    ELSE Ev(s, "VMREAD_ERROR")

\* A VM exit saves the guest RIP, RSP and CR3 and loads the host CR3.
VmExit(s, rip, rsp, len) ==
    [s EXCEPT !.mode = "root", !.GuestRip = rip, !.GuestRsp = rsp,
              !.GuestCr3 = s.cr3, !.ExitInstructionLength = len,
              !.cr3 = s.HostCr3]

SetHasLaunched(s, v) == IF s.fault THEN s ELSE [s EXCEPT !.HasLaunched = v]

WriteCr3(s, v) == IF s.fault THEN s ELSE [s EXCEPT !.cr3 = v]

\* __writecr4(__readcr4() & (~X86_CR4_VMXE)); clearing CR4.VMXE in VMX
\* operation raises #GP.
ClearCr4Vmxe(s) ==
    IF s.fault THEN s
    ELSE IF s.mode # "off" THEN Ud(s, "CR4_CLEAR_VMXE")
    ELSE [Ev(s, "CR4_CLEAR_VMXE") EXCEPT !.cr4vmxe = FALSE]

AsmEnableVmxOperation(s) ==
    IF s.fault THEN s ELSE [Ev(s, "CR4_SET_VMXE") EXCEPT !.cr4vmxe = TRUE]

VmxFixCr4AndCr0Bits(s) == IF s.fault THEN s ELSE Ev(s, "FIX_CR0_CR4")

RECURSIVE Pow2(_), BitwiseOr(_, _), BitwiseAnd(_, _)
\* Control registers and the fixed-bit MSRs as unsigned integers: CR_FIXED
\* has LowBits low bits (Fields.Low) and as many high bits.
RegBits == 2 * LowBits
Pow2(n) == IF n = 0 THEN 1 ELSE 2 * Pow2(n - 1)
BitwiseOr(a, b) ==
    IF a = 0 /\ b = 0 THEN 0
    ELSE (IF a % 2 = 1 \/ b % 2 = 1 THEN 1 ELSE 0) + 2 * BitwiseOr(a \div 2, b \div 2)
BitwiseAnd(a, b) ==
    IF a = 0 \/ b = 0 THEN 0
    ELSE (IF a % 2 = 1 /\ b % 2 = 1 THEN 1 ELSE 0) + 2 * BitwiseAnd(a \div 2, b \div 2)
FieldsLow(Flags) == Flags % Pow2(LowBits)

\* A fix that ORs FIXED0 in and never masks with FIXED1.
FixCrSetsOnly(Cr, Fixed0, Fixed1) == BitwiseOr(Cr, FieldsLow(Fixed0))

\* One register: |= FIXED0.Low, then &= FIXED1.Low.
FixCr(Cr, Fixed0, Fixed1) ==
    BitwiseAnd(BitwiseOr(Cr, FieldsLow(Fixed0)), FieldsLow(Fixed1))

\* The values VmxFixCr4AndCr0Bits writes; msr: the four fixed-bit MSRs.
VmxFixCr4AndCr0BitsValues(Cr0, Cr4, msr) ==
    [Cr0 |-> FixCr(Cr0, msr.IA32_VMX_CR0_FIXED0, msr.IA32_VMX_CR0_FIXED1),
     Cr4 |-> FixCr(Cr4, msr.IA32_VMX_CR4_FIXED0, msr.IA32_VMX_CR4_FIXED1)]

\* Restores the FS, GS, GDTR and IDTR the guest had.
HvRestoreRegisters(s) == IF s.fault THEN s ELSE Ev(s, "RESTORE_REGISTERS")

\* Freeing a pointer that holds no live allocation is a bug check.
FreeRegion(s, r) ==
    IF s.fault THEN s
    ELSE IF s.region[r] = "live" THEN [s EXCEPT !.region[r] = "freed"]
    ELSE [s EXCEPT !.fault = TRUE]

\* ------------------------------------------------------- per-core routines
\* Allocates the VMXON region and executes VMXON on it.
VmxAllocateVmxonRegion(s, ok) ==
    IF s.fault THEN s
    ELSE IF ok
         THEN Ret([Ev(s, "VMXON") EXCEPT !.region["VmxonRegion"] = "live", !.mode = "root"],
                  "TRUE")
         ELSE Ret(s, "FALSE")

VmxAllocateVmcsRegion(s, ok) ==
    IF s.fault THEN s
    ELSE IF ok
         THEN Ret([Ev(s, "ALLOC_VMCS") EXCEPT !.region["VmcsRegion"] = "live", !.vmcs = "init"],
                  "TRUE")
         ELSE Ret(s, "FALSE")

VmxPerformVirtualizationOnSpecificCore(s, okVmxon, okVmcs) ==
    LET s0 == Enter(s, "VmxPerformVirtualizationOnSpecificCore")
        s1 == AsmEnableVmxOperation(s0)
        s2 == VmxFixCr4AndCr0Bits(s1)
        s3 == VmxAllocateVmxonRegion(s2, okVmxon)
    IN  IF s3.ret = "FALSE" THEN s3
        ELSE LET s4 == VmxAllocateVmcsRegion(s3, okVmcs)
             IN  IF s4.ret = "FALSE" THEN s4 ELSE Ret(s4, "TRUE")

VmxClearVmcsState(s, ok) ==
    LET s1 == Vmclear(s, ok)
    IN  IF ~ok THEN Ret(Vmxoff(s1), "FALSE") ELSE Ret(s1, "TRUE")

VmxLoadVmcs(s, ok) ==
    LET s1 == Vmptrld(s, ok)
    IN  IF s1.vmcs # "current" THEN Ret(s1, "FALSE") ELSE Ret(s1, "TRUE")

\* A setup that takes the host CR3 from the CR3 that is live.
VmxSetupVmcsHostCr3Live(s, GuestStack) ==
    IF s.fault THEN s
    ELSE [Ev(s, "SETUP_VMCS") EXCEPT
             !.LinkPointer = "ones",
             !.GuestCr3 = s.cr3,
             !.HostCr3 = s.cr3,
             !.GuestRsp = GuestStack,
             !.GuestRip = AsmVmxRestoreState]

VmxSetupVmcs(s, GuestStack) ==
    IF s.fault THEN s
    ELSE [Ev(s, "SETUP_VMCS") EXCEPT
             !.LinkPointer = "ones",
             !.GuestCr3 = s.cr3,
             !.HostCr3 = "system",
             !.GuestRsp = GuestStack,
             !.GuestRip = AsmVmxRestoreState]

\* A failure path that leaves VMX operation before it reads the error.
VmlaunchFailedVmxoffFirst(s) ==
    LET s1 == SetHasLaunched(s, FALSE)
        s2 == Vmxoff(s1)
        s3 == VmreadInstructionError(s2)
    IN  Ret(s3, "FALSE")

\* VmxVirtualizeCurrentSystem after __vmx_vmlaunch() came back.
VmlaunchFailed(s) ==
    LET s1 == SetHasLaunched(s, FALSE)
        s2 == VmreadInstructionError(s1)
        s3 == Vmxoff(s2)
    IN  Ret(s3, "FALSE")

VmxVirtualizeCurrentSystem(s, GuestStack, okClear, okLoad, okLaunch) ==
    LET s0 == Enter(s, "VmxVirtualizeCurrentSystem")
        s1 == VmxClearVmcsState(s0, okClear)
    IN  IF s1.ret = "FALSE" \/ s1.fault THEN s1
        ELSE LET s2 == VmxLoadVmcs(s1, okLoad)
             IN  IF s2.ret = "FALSE" \/ s2.fault THEN s2
                 ELSE LET s3 == VmxSetupVmcs(s2, GuestStack)
                          s4 == SetHasLaunched(s3, TRUE)
                          s5 == Vmlaunch(s4, okLaunch)
                      IN  IF okLaunch THEN Ret(s5, "noreturn") ELSE VmlaunchFailed(s5)

VmxVmresume(s, ok) ==
    LET s1 == Vmresume(s, ok)
    IN  IF ok THEN s1
        ELSE Vmxoff(VmreadInstructionError(s1))

\* A teardown that returns without VMCLEAR and without VMXOFF.
VmxVmxoffStaysInVmxOperation(s, okClear) == Enter(s, "VmxVmxoff")

\* A teardown that resumes the guest at the VMCALL itself.
VmxVmxoffKeepsRip(s, okClear) ==
    LET s1 == WriteCr3(s, s.GuestCr3)
        s2 == [s1 EXCEPT !.VmxoffState =
                  [IsVmxoffExecuted |-> TRUE,
                   GuestRip |-> s.GuestRip,
                   GuestRsp |-> s.GuestRsp]]
        s3 == HvRestoreRegisters(s2)
        s4 == VmxClearVmcsState(s3, okClear)
        s5 == Vmxoff(s4)
        s6 == SetHasLaunched(s5, FALSE)
    IN  ClearCr4Vmxe(s6)

VmxVmxoff(s, okClear) ==
    LET s1 == WriteCr3(s, s.GuestCr3)
        s2 == [s1 EXCEPT !.VmxoffState =
                  [IsVmxoffExecuted |-> TRUE,
                   GuestRip |-> s.GuestRip + s.ExitInstructionLength,
                   GuestRsp |-> s.GuestRsp]]
        s3 == HvRestoreRegisters(s2)
        s4 == VmxClearVmcsState(s3, okClear)
        s5 == Vmxoff(s4)
        s6 == SetHasLaunched(s5, FALSE)
    IN  ClearCr4Vmxe(s6)

VmxReturnStackPointerForVmxoff(s) == s.VmxoffState.GuestRsp

VmxReturnInstructionPointerForVmxoff(s) == s.VmxoffState.GuestRip

VmxGetCurrentLaunchState(s) == s.HasLaunched

\* __vmx_vmread(VMCS_GUEST_VMCS_LINK_POINTER, &VmcsLink): #UD outside VMX
\* operation, VMfailInvalid in VMX root without a current VMCS; in non-root
\* the instruction exits to the VMM, which injects #UD or skips it.
VmreadLinkPointer(s, inGuest) ==
    CASE s.mode = "off" -> [fault |-> TRUE, status |-> 0, VmcsLink |-> "zero"]
      [] s.mode = "nonroot" ->
            [fault |-> inGuest = "#UD", status |-> 0, VmcsLink |-> "zero"]
      [] s.mode = "root" ->
            IF s.vmcs \in {"current", "launched"}
            THEN [fault |-> FALSE, status |-> 0, VmcsLink |-> s.LinkPointer]
            ELSE [fault |-> FALSE, status |-> 1, VmcsLink |-> "zero"]

\* A check that takes every VMREAD that did not fault for VMX root.
VmxCheckIsOnVmxRootIgnoresValue(s, inGuest) ==
    LET r == VmreadLinkPointer(s, inGuest)
    IN  ~r.fault /\ r.status = 0

VmxCheckIsOnVmxRoot(s, inGuest) ==
    LET r == VmreadLinkPointer(s, inGuest)
    IN  IF r.fault THEN FALSE
        ELSE IF r.status = 0 THEN (IF r.VmcsLink # "zero" THEN TRUE ELSE FALSE)
        ELSE FALSE

\* ------------------------------------------------------------- hypercalls
\* The VM-exit handler's reply to a VMCALL, by hypercall number.
VmcallStatus(number) ==
    IF number \in {"VMCALL_TEST", "VMCALL_VMXOFF"} THEN "STATUS_SUCCESS"
    ELSE "STATUS_UNSUCCESSFUL"

\* AsmVmxVmcall(number, ...) on a core.  In VMX non-root the VMCALL exits to
\* the handler: VMCALL_VMXOFF runs VmxVmxoff and the exit stub continues at
\* the saved guest RIP/RSP; any other number is answered and the guest resumed
\* with VmxVmresume (a failed VMRESUME leaves the stub nowhere to go).
\* Outside VMX operation VMCALL raises #UD.  In VMX root VMCALL fails
\* (VMfail) and RAX keeps whatever the caller left in it: leftover.
AsmVmxVmcall(s, number, rsp, okInstr, leftover) ==
    IF s.fault THEN s
    ELSE IF s.mode = "off" THEN Ud(s, "VMCALL")
    ELSE IF s.mode = "root" THEN [Ev(s, "VMCALL_FAIL") EXCEPT !.status = leftover]
    ELSE LET s1 == VmExit(Ev(s, "VMCALL"), AsmVmxVmcallAddress, rsp, VmcallInstructionLength)
         IN  IF number = "VMCALL_VMXOFF"
             THEN LET s2 == VmxVmxoff(s1, okInstr)
                  IN  IF s2.fault THEN s2 ELSE [s2 EXCEPT !.status = VmcallStatus(number)]
             ELSE LET s2 == VmxVmresume(s1, okInstr)
                  IN  IF s2.fault THEN s2
                      ELSE IF okInstr THEN [s2 EXCEPT !.status = VmcallStatus(number)]
                      ELSE [s2 EXCEPT !.fault = TRUE]

VmxTerminate(s, rsp, okClear, leftover) ==
    LET s0 == Enter(s, "VmxTerminate")
        s1 == AsmVmxVmcall(s0, "VMCALL_VMXOFF", rsp, okClear, leftover)
    IN  IF s1.fault THEN s1
        ELSE IF s1.status = "STATUS_SUCCESS"
        THEN LET f1 == FreeRegion(s1, "VmxonRegion")
                 f2 == FreeRegion(f1, "VmcsRegion")
                 f3 == FreeRegion(f2, "VmmStack")
                 f4 == FreeRegion(f3, "MsrBitmap")
                 f5 == FreeRegion(f4, "IoBitmapA")
                 f6 == FreeRegion(f5, "IoBitmapB")
             IN  Ret(f6, "TRUE")
        ELSE Ret(s1, "FALSE")

\* ------------------------------------------------------------- EPT hooks
\* The leaf the EPT table manager builds for page p: the identity mapping,
\* r = w = x = 1, memory type from the MTRR map.
MemoryType(p) == IF p % 2 = 1 THEN "WB" ELSE "UC"

IdentityLeaf(p) ==
    [frame |-> "original", r |-> TRUE, w |-> TRUE, x |-> TRUE, mt |-> MemoryType(p)]

\* The two configurations of a hidden hook's leaf.
ExecConfiguration(leaf) ==
    [leaf EXCEPT !.frame = "fake", !.r = FALSE, !.w = FALSE, !.x = TRUE]

DataConfiguration(leaf) ==
    [leaf EXCEPT !.frame = "original", !.r = TRUE, !.w = TRUE, !.x = FALSE]

\* An access watch: the chosen bits are cleared on the data leaf.
WatchConfiguration(leaf, mask) ==
    [DataConfiguration(leaf) EXCEPT !.r = "r" \notin mask, !.w = "w" \notin mask]

\* The data leaf with the bits of mask set again.
RestoredConfiguration(leaf, mask) ==
    [DataConfiguration(leaf) EXCEPT !.x = "x" \in mask]

AccessMasks == (SUBSET {"r", "w", "x"}) \ {{}}

Permits(leaf, access) ==
    CASE access = "r" -> leaf.r
      [] access = "w" -> leaf.w
      [] access = "x" -> leaf.x

\* Installs a hook on page p unless the page is hooked already: saves the
\* original entry, switches the leaf and appends the page to the list.
EptHookPerformPageHook2(h, p, hidden, mask) ==
    IF p \in h.HookedPagesList THEN h
    ELSE LET changed == IF hidden THEN ExecConfiguration(h.EptLeaf[p])
                        ELSE WatchConfiguration(h.EptLeaf[p], mask)
             details == [OriginalEntry |-> h.EptLeaf[p], ChangedEntry |-> changed,
                         IsHidden |-> hidden, Mask |-> mask, Mtf |-> FALSE]
         IN  [h EXCEPT !.HookedEntryDetails =
                           [q \in h.HookedPagesList \cup {p} |-> IF q = p THEN details ELSE @[q]],
                       !.EptLeaf[p] = changed,
                       !.HookedPagesList = @ \cup {p}]

EptHook(h, p) == EptHookPerformPageHook2(h, p, TRUE, {"r", "w"})

EptHook2(h, p, mask, EptHiddenHook2) ==
    IF EptHiddenHook2 THEN EptHookPerformPageHook2(h, p, TRUE, {"r", "w"})
    ELSE EptHookPerformPageHook2(h, p, FALSE, mask)

\* The EPT-violation handler for hooked page p: a hidden hook flips between
\* the exec and the data configuration, an access watch gets its bits back
\* for one instruction; the monitor trap flag re-arms the hook afterwards.
EptHookHandleHookedPage(h, p, access) ==
    LET d == h.HookedEntryDetails[p]
        leaf == IF d.IsHidden
                THEN IF access = "x" THEN ExecConfiguration(d.OriginalEntry)
                     ELSE DataConfiguration(d.OriginalEntry)
                ELSE RestoredConfiguration(d.OriginalEntry, d.Mask)
    IN  [h EXCEPT !.EptLeaf[p] = leaf, !.HookedEntryDetails[p].Mtf = TRUE]

\* An MTF exit that leaves the leaf as the single step had it.
MtfHandleVmexitKeepsLeaf(h, p) ==
    [h EXCEPT !.HookedEntryDetails[p].Mtf = FALSE]

\* The MTF exit after the single step: the hook's entry is applied again.
MtfHandleVmexit(h, p) ==
    [h EXCEPT !.EptLeaf[p] = h.HookedEntryDetails[p].ChangedEntry,
              !.HookedEntryDetails[p].Mtf = FALSE]

\* A restore that leaves the hook's entry in the table.
EptHookRestoreSingleHookKeepsEntry(h, p) == h

EptHookRestoreSingleHookToOriginalEntry(h, p) ==
    [h EXCEPT !.EptLeaf[p] = h.HookedEntryDetails[p].OriginalEntry]

EptHookUnHookSingleAddress(h, p) ==
    IF p \notin h.HookedPagesList THEN h
    ELSE LET h1 == EptHookRestoreSingleHookToOriginalEntry(h, p)
         IN  [h1 EXCEPT !.HookedEntryDetails = [q \in h.HookedPagesList \ {p} |-> @[q]],
                        !.HookedPagesList = @ \ {p}]

RECURSIVE EptHookUnHookAllFrom(_, _)
EptHookUnHookAllFrom(h, ps) ==
    IF ps = {} THEN h
    ELSE LET p == CHOOSE q \in ps : TRUE
         IN  EptHookUnHookAllFrom(EptHookUnHookSingleAddress(h, p), ps \ {p})

EptHookUnHookAll(h) == EptHookUnHookAllFrom(h, h.HookedPagesList)

\* The hook state as one record.
HookState ==
    [EptLeaf |-> EptLeaf, HookedEntryDetails |-> HookedEntryDetails,
     HookedPagesList |-> HookedPagesList]

SetHookState(h) ==
    /\ EptLeaf' = h.EptLeaf
    /\ HookedEntryDetails' = h.HookedEntryDetails
    /\ HookedPagesList' = h.HookedPagesList

\* ------------------------------------------------------- string helpers
PageSize == 2 * PageWords

Addresses == 0 .. (MemPages * PageSize - 1)

PageOf(a) == a \div PageSize

PAGE_ALIGN(a) == a - (a % PageSize)

\* TRUE iff every page of [a, a + size) is valid under the current CR3.
CheckAccessValidityAndSafety(m, a, size) ==
    \A b \in a .. (a + size - 1) : PageOf(b) \in m.valid

\* MemoryMapperReadMemorySafe(S, &Temp, size): the character at S; on a page
\* that is not valid the read faults or leaves Temp as it was.
MemoryMapperReadMemorySafe(m, w, size) ==
    LET bytes == w.S .. (w.S + size - 1)
    IN  IF \A b \in bytes : PageOf(b) \in m.valid
        THEN [w EXCEPT !.Temp = IF bytes \subseteq m.zeros THEN 0 ELSE 1,
                       !.read = @ \cup {PageOf(b) : b \in bytes},
                       !.unvalidated = @ \cup ({PageOf(b) : b \in bytes} \ w.validated)]
        ELSE [w EXCEPT !.status = IF m.unsafe = "fault" THEN "fault" ELSE @,
                       !.read = @ \cup {PageOf(b) : b \in bytes},
                       !.unvalidated = @ \cup ({PageOf(b) : b \in bytes} \ w.validated)]

\* The loop of VmxCompatibleStrlen and VmxCompatibleWcslen, size bytes per
\* character; a walk that leaves the memory never comes back.
RECURSIVE StringWalk(_, _, _)
StringWalk(m, w, size) ==
    IF w.S >= (MemPages + 1) * PageSize THEN [w EXCEPT !.status = "unbounded"]
    ELSE LET r == MemoryMapperReadMemorySafe(m, w, size)
         IN  IF r.status = "fault" THEN r
             ELSE IF r.Temp = 0
             THEN [r EXCEPT !.cr3 = m.OriginalCr3, !.status = "returned", !.ret = r.Count]
             ELSE LET n == [r EXCEPT !.Count = @ + 1, !.S = @ + size]
                  IN  IF n.S % PageSize = 0
                      THEN IF ~CheckAccessValidityAndSafety(m, n.S, size)
                           THEN [n EXCEPT !.cr3 = m.OriginalCr3, !.status = "returned",
                                          !.ret = 0, !.failed = TRUE]
                           ELSE StringWalk(m, [n EXCEPT !.validated = @ \cup {PageOf(n.S)}],
                                           size)
                      ELSE StringWalk(m, n, size)

\* A first check that returns without going back to the caller's CR3.
FirstCheckFailedKeepsCr3(m, w) ==
    [w EXCEPT !.status = "returned", !.ret = 0, !.failed = TRUE]

\* The return taken when the first check fails.
FirstCheckFailed(m, w) ==
    [w EXCEPT !.cr3 = m.OriginalCr3, !.status = "returned", !.ret = 0, !.failed = TRUE]

VmxCompatibleLen(m, size) ==
    LET AlignedAddress == PAGE_ALIGN(m.S)
        w == [S |-> m.S, Count |-> 0, Temp |-> 0, cr3 |-> m.GuestCr3,
              status |-> "running", ret |-> 0,
              failed |-> FALSE, validated |-> {}, read |-> {}, unvalidated |-> {}]
    IN  IF ~CheckAccessValidityAndSafety(m, AlignedAddress, size)
        THEN FirstCheckFailed(m, w)
        ELSE StringWalk(m, [w EXCEPT !.validated = {PageOf(AlignedAddress)}], size)

VmxCompatibleStrlen(m) == VmxCompatibleLen(m, 1)

VmxCompatibleWcslen(m) == VmxCompatibleLen(m, 2)

\* The sets of at most n zero bytes.
RECURSIVE ZeroSets(_)
ZeroSets(n) ==
    IF n = 0 THEN {{}}
    ELSE LET smaller == ZeroSets(n - 1)
         IN  smaller \cup {Z \cup {a} : Z \in smaller, a \in Addresses}

\* The guest memory (its valid pages, its zero bytes, what a read of a page
\* that is not valid does) and the CR3 values a helper is called with.
MemoryInputs ==
    [valid : SUBSET (0 .. MemPages - 1), OriginalCr3 : Cr3s, GuestCr3 : Cr3s,
     unsafe : {"fault", "unchanged"}]

StringInput(mem, zeros, S) ==
    [valid |-> mem.valid, zeros |-> zeros, S |-> S, OriginalCr3 |-> mem.OriginalCr3,
     GuestCr3 |-> mem.GuestCr3, unsafe |-> mem.unsafe]

NoCall == [fn |-> "none"]

\* ------------------------------------------- configuration of single cores
Args == 0 .. MaxArg

\* The VM-execution controls and bitmaps of a core as VmxSetupVmcs leaves them.
DefaultControls ==
    [ExternalInterruptExiting |-> FALSE, RdtscExiting |-> FALSE, RdpmcExiting |-> FALSE,
     MovToDebugRegistersExiting |-> FALSE, MovToControlRegisterExiting |-> {},
     ExceptionBitmap |-> {}, MsrBitmapWrite |-> {}, MsrBitmapRead |-> {}, IoBitmap |-> {},
     EferSyscallHook |-> FALSE]

\* What the per-core routine does with its context on the core it runs on.
DpcRoutinePerform(c, Routine, Context) ==
    CASE Routine = "DpcRoutinePerformSetExternalInterruptExitingOnSingleCore" ->
            [c EXCEPT !.ExternalInterruptExiting = TRUE]
      [] Routine = "DpcRoutinePerformEnableRdtscExitingOnSingleCore" ->
            [c EXCEPT !.RdtscExiting = TRUE]
      [] Routine = "DpcRoutinePerformEnableRdpmcExitingOnSingleCore" ->
            [c EXCEPT !.RdpmcExiting = TRUE]
      [] Routine = "DpcRoutinePerformEnableMovToDebugRegistersExiting" ->
            [c EXCEPT !.MovToDebugRegistersExiting = TRUE]
      [] Routine = "DpcRoutinePerformSetExceptionBitmapOnSingleCore" ->
            [c EXCEPT !.ExceptionBitmap = @ \cup {Context}]
      [] Routine = "DpcRoutinePerformEnableMovToControlRegisterExiting" ->
            [c EXCEPT !.MovToControlRegisterExiting = @ \cup {Context}]
      [] Routine = "DpcRoutinePerformChangeMsrBitmapWriteOnSingleCore" ->
            [c EXCEPT !.MsrBitmapWrite = @ \cup {Context}]
      [] Routine = "DpcRoutinePerformChangeMsrBitmapReadOnSingleCore" ->
            [c EXCEPT !.MsrBitmapRead = @ \cup {Context}]
      [] Routine = "DpcRoutinePerformChangeIoBitmapOnSingleCore" ->
            [c EXCEPT !.IoBitmap = @ \cup {Context}]
      [] Routine = "DpcRoutinePerformEnableEferSyscallHookOnSingleCore" ->
            [c EXCEPT !.EferSyscallHook = TRUE]

\* DpcRoutineRunTaskOnSingleCore(CoreNumber, Routine, DeferredContext) runs
\* Routine(DeferredContext) on core CoreNumber and waits for it.
DpcRoutineRunTaskOnSingleCore(vm, CoreNumber, Routine, DeferredContext) ==
    [cores |-> [vm.cores EXCEPT ![CoreNumber] =
                    DpcRoutinePerform(@, Routine, DeferredContext)],
     ran |-> vm.ran \cup {[core |-> CoreNumber, routine |-> Routine,
                           context |-> DeferredContext]}]

ConfigureSetExternalInterruptExitingOnSingleCore(vm, TargetCoreId) ==
    DpcRoutineRunTaskOnSingleCore(
        vm, TargetCoreId, "DpcRoutinePerformSetExternalInterruptExitingOnSingleCore", "NULL")

ConfigureEnableRdtscExitingOnSingleCore(vm, TargetCoreId) ==
    DpcRoutineRunTaskOnSingleCore(
        vm, TargetCoreId, "DpcRoutinePerformEnableRdtscExitingOnSingleCore", "NULL")

ConfigureEnableRdpmcExitingOnSingleCore(vm, TargetCoreId) ==
    DpcRoutineRunTaskOnSingleCore(
        vm, TargetCoreId, "DpcRoutinePerformEnableRdpmcExitingOnSingleCore", "NULL")

ConfigureEnableMovToDebugRegistersExitingOnSingleCore(vm, TargetCoreId) ==
    DpcRoutineRunTaskOnSingleCore(
        vm, TargetCoreId, "DpcRoutinePerformEnableMovToDebugRegistersExiting", "NULL")

ConfigureSetExceptionBitmapOnSingleCore(vm, TargetCoreId, BitMask) ==
    DpcRoutineRunTaskOnSingleCore(
        vm, TargetCoreId, "DpcRoutinePerformSetExceptionBitmapOnSingleCore", BitMask)

\* A DEBUGGER_BROADCASTING_OPTIONS *: the pointer to the caller's object.
PointerTo(object) == <<"*", object>>

\* &BroadcastingOption: the address of the wrapper's own parameter.
AddressOfParameter(BroadcastingOption) == <<"&", BroadcastingOption>>

ConfigureEnableMovToControlRegisterExitingOnSingleCore(vm, TargetCoreId, BroadcastingOption) ==
    DpcRoutineRunTaskOnSingleCore(
        vm, TargetCoreId, "DpcRoutinePerformEnableMovToControlRegisterExiting",
        AddressOfParameter(BroadcastingOption))

ConfigureChangeMsrBitmapWriteOnSingleCore(vm, TargetCoreId, MsrMask) ==
    DpcRoutineRunTaskOnSingleCore(
        vm, TargetCoreId, "DpcRoutinePerformChangeMsrBitmapWriteOnSingleCore", MsrMask)

ConfigureChangeMsrBitmapReadOnSingleCore(vm, TargetCoreId, MsrMask) ==
    DpcRoutineRunTaskOnSingleCore(
        vm, TargetCoreId, "DpcRoutinePerformChangeMsrBitmapReadOnSingleCore", MsrMask)

\* A wrapper that sends its task to the first core.
ConfigureChangeIoBitmapOnFirstCore(vm, TargetCoreId, Port) ==
    DpcRoutineRunTaskOnSingleCore(
        vm, 0, "DpcRoutinePerformChangeIoBitmapOnSingleCore", Port)

ConfigureChangeIoBitmapOnSingleCore(vm, TargetCoreId, Port) ==
    DpcRoutineRunTaskOnSingleCore(
        vm, TargetCoreId, "DpcRoutinePerformChangeIoBitmapOnSingleCore", Port)

\* BroadcastEnableEferSyscallEventsOnAllProcessors runs the enable routine on
\* every core.
BroadcastEnableEferSyscallEventsOnAllProcessors(vm) ==
    [cores |-> [c \in Cores |->
                   DpcRoutinePerform(vm.cores[c],
                                     "DpcRoutinePerformEnableEferSyscallHookOnSingleCore",
                                     "NULL")],
     ran |-> vm.ran \cup
                 {[core |-> c, context |-> "NULL",
                   routine |-> "DpcRoutinePerformEnableEferSyscallHookOnSingleCore"] :
                      c \in Cores}]

SyscallHookTypes ==
    {"DEBUGGER_EVENT_SYSCALL_SYSRET_SAFE_ACCESS_MEMORY",
     "DEBUGGER_EVENT_SYSCALL_SYSRET_HANDLE_ALL_UD", "other"}

\* The if / else if on SyscallHookType; flag: g_IsUnsafeSyscallOrSysretHandling.
SetUnsafeSyscallOrSysretHandling(flag, SyscallHookType) ==
    IF SyscallHookType = "DEBUGGER_EVENT_SYSCALL_SYSRET_HANDLE_ALL_UD" THEN TRUE
    ELSE IF SyscallHookType = "DEBUGGER_EVENT_SYSCALL_SYSRET_SAFE_ACCESS_MEMORY" THEN FALSE
    ELSE flag

\* The handling of SYSCALL/SYSRET #UD exits on a core with controls c: every
\* core reads the one global flag g_IsUnsafeSyscallOrSysretHandling.
SyscallHandlingMode(flag, c) ==
    IF ~c.EferSyscallHook THEN "none"
    ELSE IF flag THEN "DEBUGGER_EVENT_SYSCALL_SYSRET_HANDLE_ALL_UD"
    ELSE "DEBUGGER_EVENT_SYSCALL_SYSRET_SAFE_ACCESS_MEMORY"

\* sys: the flag and the cores; seen: the flag as the dispatched routine
\* finds it.
ConfigureEnableEferSyscallEventsOnAllProcessors(sys, SyscallHookType) ==
    LET flag == SetUnsafeSyscallOrSysretHandling(sys.flag, SyscallHookType)
        vm == BroadcastEnableEferSyscallEventsOnAllProcessors(
                  [cores |-> sys.cores, ran |-> {}])
    IN  [flag |-> flag, seen |-> flag, cores |-> vm.cores, ran |-> vm.ran]

\* A wrapper that dispatches the task and sets the flag afterwards.
ConfigureEnableEferSyscallHookDispatchFirst(sys, TargetCoreId, SyscallHookType) ==
    LET vm == DpcRoutineRunTaskOnSingleCore(
                  [cores |-> sys.cores, ran |-> {}], TargetCoreId,
                  "DpcRoutinePerformEnableEferSyscallHookOnSingleCore", "NULL")
        flag == SetUnsafeSyscallOrSysretHandling(sys.flag, SyscallHookType)
    IN  [flag |-> flag, seen |-> sys.flag, cores |-> vm.cores, ran |-> vm.ran]

ConfigureEnableEferSyscallHookOnSingleCore(sys, TargetCoreId, SyscallHookType) ==
    LET flag == SetUnsafeSyscallOrSysretHandling(sys.flag, SyscallHookType)
        vm == DpcRoutineRunTaskOnSingleCore(
                  [cores |-> sys.cores, ran |-> {}], TargetCoreId,
                  "DpcRoutinePerformEnableEferSyscallHookOnSingleCore", "NULL")
    IN  [flag |-> flag, seen |-> flag, cores |-> vm.cores, ran |-> vm.ran]

\* The wrappers without and with an argument, and the routine of each.
PlainWrappers ==
    {"ConfigureSetExternalInterruptExitingOnSingleCore",
     "ConfigureEnableRdtscExitingOnSingleCore",
     "ConfigureEnableRdpmcExitingOnSingleCore",
     "ConfigureEnableMovToDebugRegistersExitingOnSingleCore"}

ArgumentWrappers ==
    {"ConfigureSetExceptionBitmapOnSingleCore",
     "ConfigureEnableMovToControlRegisterExitingOnSingleCore",
     "ConfigureChangeMsrBitmapWriteOnSingleCore",
     "ConfigureChangeMsrBitmapReadOnSingleCore",
     "ConfigureChangeIoBitmapOnSingleCore"}

ConfigureOnSingleCore(wrapper, vm, TargetCoreId, arg) ==
    CASE wrapper = "ConfigureSetExternalInterruptExitingOnSingleCore" ->
            ConfigureSetExternalInterruptExitingOnSingleCore(vm, TargetCoreId)
      [] wrapper = "ConfigureEnableRdtscExitingOnSingleCore" ->
            ConfigureEnableRdtscExitingOnSingleCore(vm, TargetCoreId)
      [] wrapper = "ConfigureEnableRdpmcExitingOnSingleCore" ->
            ConfigureEnableRdpmcExitingOnSingleCore(vm, TargetCoreId)
      [] wrapper = "ConfigureEnableMovToDebugRegistersExitingOnSingleCore" ->
            ConfigureEnableMovToDebugRegistersExitingOnSingleCore(vm, TargetCoreId)
      [] wrapper = "ConfigureSetExceptionBitmapOnSingleCore" ->
            ConfigureSetExceptionBitmapOnSingleCore(vm, TargetCoreId, arg)
      [] wrapper = "ConfigureEnableMovToControlRegisterExitingOnSingleCore" ->
            ConfigureEnableMovToControlRegisterExitingOnSingleCore(vm, TargetCoreId, arg)
      [] wrapper = "ConfigureChangeMsrBitmapWriteOnSingleCore" ->
            ConfigureChangeMsrBitmapWriteOnSingleCore(vm, TargetCoreId, arg)
      [] wrapper = "ConfigureChangeMsrBitmapReadOnSingleCore" ->
            ConfigureChangeMsrBitmapReadOnSingleCore(vm, TargetCoreId, arg)
      [] wrapper = "ConfigureChangeIoBitmapOnSingleCore" ->
            ConfigureChangeIoBitmapOnSingleCore(vm, TargetCoreId, arg)

\* ------------------------------------------------------------ driver thread
\* A check that looks at CPUID only.
VmxCheckVmxSupportCpuidOnly(cpuidVmx, enableVmxOutsideSmx) == cpuidVmx

VmxCheckVmxSupport(cpuidVmx, enableVmxOutsideSmx) ==
    IF ~cpuidVmx THEN FALSE
    ELSE IF enableVmxOutsideSmx = FALSE THEN FALSE
    ELSE TRUE

\* One step of the initialization: not run once an earlier step returned.
InitStep(t, name, ok) ==
    IF t.ret # "none" THEN t
    ELSE [t EXCEPT !.steps = Append(@, [step |-> name, ok |-> ok]),
                   !.ret = IF ok THEN "none" ELSE "FALSE"]

\* A step that allocates res when it succeeds.
InitAlloc(t, name, res, ok) ==
    IF t.ret # "none" THEN t
    ELSE LET t1 == InitStep(t, name, ok)
         IN  IF ok THEN [t1 EXCEPT !.heap[res] = "live"] ELSE t1

\* An initialization that sets up the EPT tables before the pool manager.
VmxPerformVirtualizationOnAllCoresEptFirst(t, in) ==
    LET t1 == InitStep(t, "VmxCheckVmxSupport",
                       VmxCheckVmxSupport(in.cpuidVmx, in.enableVmxOutsideSmx))
        t2 == InitAlloc(t1, "AllocateEptState", "g_EptState", in.okEptState)
        t3 == InitStep(t2, "EptCheckFeatures", in.okEptFeatures)
        t4 == InitStep(t3, "EptBuildMtrrMap", in.okMtrr)
        t5 == InitAlloc(t4, "EptLogicalProcessorInitialize", "EptPageTable", in.okEptInit)
        t6 == InitAlloc(t5, "PoolManagerInitialize", "PoolManager", in.okPool)
    IN  InitStep(t6, "BroadcastVmxVirtualizationAllCores", TRUE)

\* VmxPerformVirtualizationOnAllCores up to its broadcast; in: the hardware
\* found and which of the steps succeed.
VmxPerformVirtualizationOnAllCores(t, in) ==
    LET t1 == InitStep(t, "VmxCheckVmxSupport",
                       VmxCheckVmxSupport(in.cpuidVmx, in.enableVmxOutsideSmx))
        t2 == InitAlloc(t1, "AllocateEptState", "g_EptState", in.okEptState)
        t3 == InitStep(t2, "EptCheckFeatures", in.okEptFeatures)
        t4 == InitStep(t3, "EptBuildMtrrMap", in.okMtrr)
        t5 == InitAlloc(t4, "PoolManagerInitialize", "PoolManager", in.okPool)
        t6 == InitAlloc(t5, "EptLogicalProcessorInitialize", "EptPageTable", in.okEptInit)
    IN  InitStep(t6, "BroadcastVmxVirtualizationAllCores", TRUE)

InitInputs ==
    [cpuidVmx : BOOLEAN, enableVmxOutsideSmx : BOOLEAN, okEptState : BOOLEAN,
     okEptFeatures : BOOLEAN, okMtrr : BOOLEAN, okPool : BOOLEAN, okEptInit : BOOLEAN]

StepNames(s) == [i \in DOMAIN s |-> s[i].step]

\* The body of VmxInitialize's loop for one ProcessorID; failWhat names the
\* allocation that fails, if one does.
VmxAllocateBuffers(s, failWhat) ==
    IF failWhat = "VmmStack" THEN [s |-> s, ok |-> FALSE]
    ELSE LET a == [s EXCEPT !.region["VmmStack"] = "live"]
         IN  IF failWhat = "MsrBitmap" THEN [s |-> a, ok |-> FALSE]
             ELSE LET b == [a EXCEPT !.region["MsrBitmap"] = "live"]
                  IN  IF failWhat = "IoBitmaps" THEN [s |-> b, ok |-> FALSE]
                      ELSE [s |-> [b EXCEPT !.region["IoBitmapA"] = "live",
                                            !.region["IoBitmapB"] = "live"],
                            ok |-> TRUE]

\* A loop that goes on to the next processor whatever the allocations return.
RECURSIVE VmxInitializeLoopIgnoresFailure(_, _, _)
VmxInitializeLoopIgnoresFailure(cs, ProcessorID, failAt) ==
    IF ProcessorID >= NCores THEN [cs |-> cs, ok |-> TRUE]
    ELSE LET r == VmxAllocateBuffers(cs[ProcessorID],
                      IF failAt.core = ProcessorID THEN failAt.what ELSE "none")
         IN  VmxInitializeLoopIgnoresFailure([cs EXCEPT ![ProcessorID] = r.s],
                                             ProcessorID + 1, failAt)

RECURSIVE VmxInitializeLoop(_, _, _)
VmxInitializeLoop(cs, ProcessorID, failAt) ==
    IF ProcessorID >= NCores THEN [cs |-> cs, ok |-> TRUE]
    ELSE LET r == VmxAllocateBuffers(cs[ProcessorID],
                      IF failAt.core = ProcessorID THEN failAt.what ELSE "none")
             cs1 == [cs EXCEPT ![ProcessorID] = r.s]
         IN  IF ~r.ok THEN [cs |-> cs1, ok |-> FALSE]
             ELSE VmxInitializeLoop(cs1, ProcessorID + 1, failAt)

AllocFailures ==
    [core : Cores, what : {"VmmStack", "MsrBitmap", "IoBitmaps"}]
        \cup [core : {NCores}, what : {"none", "InvalidMsrs"}]

\* A termination that leaves the EPT hooks in place.
VmxPerformTerminationPrologueKeepsHooks(g) ==
    [g EXCEPT !.transparent = FALSE]


\* VmxPerformTermination before its broadcast.
VmxPerformTerminationPrologue(g) ==
    LET g1 == [g EXCEPT !.transparent = FALSE]      \* TransparentUnhideDebugger
    IN  [g1 EXCEPT !.hooks = EptHookUnHookAll(@)]

\* A broadcast primitive that returns without waiting for the DPCs.
BroadcastReturnsAtOnce(p) == TRUE

\* KeGenericCallDpc returns once the DPC has run on every processor.
BroadcastCompleted(p) == p = {}

\* VmxPerformTermination after its broadcast.
VmxPerformTerminationEpilogue(h) ==
    [h EXCEPT !["g_MsrBitmapInvalidMsrs"] = "freed",
              !["EptPageTable"] = "freed",
              !["g_EptState"] = "freed",
              !["PoolManager"] = "freed",
              !["g_GuestState"] = "freed"]

\* A per-core routine that always works on the first entry.
FirstVCpu(c) == 0

\* VIRTUAL_MACHINE_STATE * VCpu = &g_GuestState[KeGetCurrentProcessorNumber()]:
\* the entry a per-core routine running on core c works on.
CurrentVCpu(c) == c

\* The fields of a g_GuestState entry (the rest of the record is the CPU).
GuestStateFields(s) == <<s.region, s.HasLaunched, s.VmxoffState>>

\* The fields of entry s that differ from those of entry o.
ChangedFields(o, s) ==
    {r \in CoreRes : s.region[r] # o.region[r]}
        \cup (IF s.HasLaunched # o.HasLaunched THEN {"HasLaunched"} ELSE {})
        \cup (IF s.VmxoffState # o.VmxoffState THEN {"VmxoffState"} ELSE {})

\* w and the writes that took old to new, made by code running on core by;
\* own: the entry written is that of core by; broadcast: a broadcast was in
\* flight.
Written(w, old, new, by, broadcast) ==
    w \cup {[own |-> by = i, broadcast |-> broadcast,
             what |-> ChangedFields(old[i], new[i])] :
                i \in {j \in Cores : GuestStateFields(new[j]) # GuestStateFields(old[j])}}

\* A core that faulted has brought the system down.
Halted == \E c \in Cores : core[c].fault

\* No debugger is attached: the flag is FALSE, no core exits on MOV to CR3 and
\* no Configure... routine is running.
InitMovToCr3 ==
    /\ g_CheckPageFaultsAndMov2Cr3VmexitsWithUserDebugger = FALSE
    /\ Cr3LoadExiting = [c \in Cores |-> FALSE]
    /\ Mov2Cr3Exit = [c \in Cores |-> "none"]
    /\ configure = [routine |-> "none", pending |-> {}, returned |-> "none"]

\* ------------------------------------------------------------------ actions
Init ==
    /\ pc = "idle"
    /\ steps = <<>>
    /\ initRet = "none"
    /\ heap = [r \in GlobalRes |-> IF r = "g_GuestState" THEN "live" ELSE "none"]
    /\ core = [c \in Cores |-> InitCore]
    /\ pending = {}
    /\ HookedPagesList = {}
    /\ transparent = FALSE
    /\ failures = 0
    /\ writes = {}
    /\ EptLeaf = [p \in Pages |-> IdentityLeaf(p)]
    /\ HookedEntryDetails = [p \in {} |-> {}]
    /\ lastUnhook = 0
    /\ call = NoCall
    /\ InitMovToCr3

\* The environment may make a step of a per-core routine fail while fewer
\* than MaxFailures have failed.
MayFail == failures < MaxFailures

Injected(failed) == IF failed THEN failures + 1 ELSE failures

\* VmxInitialize calls VmxPerformVirtualizationOnAllCores.
VmxInitializeBegin ==
    /\ pc = "idle"
    /\ \E in \in InitInputs :
          LET t == VmxPerformVirtualizationOnAllCores(
                       [steps |-> steps, heap |-> heap, ret |-> "none"], in)
          IN  /\ steps' = t.steps
              /\ heap' = t.heap
              /\ IF t.ret = "FALSE"
                 THEN pc' = "init_failed" /\ initRet' = "FALSE" /\ pending' = {}
                 ELSE pc' = "BroadcastVirtualize" /\ initRet' = initRet /\ pending' = Cores
    /\ UNCHANGED <<core, hookVars, transparent, failures, writes>>

\* BroadcastVmxVirtualizationAllCores: the DPC on core c.
DpcRoutineVirtualize(c) ==
    /\ pc = "BroadcastVirtualize" /\ c \in pending /\ ~Halted
    /\ \E fail \in {"none", "VmxonRegion", "VmcsRegion"} :
          /\ fail # "none" => MayFail
          /\ core' = [core EXCEPT ![CurrentVCpu(c)] =
                         VmxPerformVirtualizationOnSpecificCore(
                             core[CurrentVCpu(c)], fail # "VmxonRegion", fail # "VmcsRegion")]
          /\ failures' = Injected(fail # "none")
    /\ writes' = Written(writes, core, core', c, TRUE)
    /\ pending' = pending \ {c}
    /\ UNCHANGED <<pc, steps, initRet, heap, hookVars, transparent>>

\* VmxInitialize from the return of VmxPerformVirtualizationOnAllCores to
\* KeGenericCallDpc(DpcRoutineInitializeGuest).
VmxInitializeAllocate ==
    /\ pc = "BroadcastVirtualize" /\ BroadcastCompleted(pending) /\ ~Halted
    /\ \E failAt \in AllocFailures, thread \in Cores :
          LET r == VmxInitializeLoop(core, 0, failAt)
              t0 == [steps |-> steps, heap |-> heap, ret |-> "none"]
              t1 == InitStep(t0, "AllocatePerCoreBuffers", r.ok)
              t2 == InitAlloc(t1, "VmxAllocateInvalidMsrBimap", "g_MsrBitmapInvalidMsrs",
                              failAt.what # "InvalidMsrs")
              t3 == InitStep(t2, "DpcRoutineInitializeGuest", TRUE)
          IN  /\ core' = r.cs
              /\ writes' = Written(writes, core, r.cs, thread, ~BroadcastCompleted(pending))
              /\ steps' = t3.steps
              /\ heap' = t3.heap
              /\ IF t3.ret = "FALSE"
                 THEN pc' = "init_failed" /\ initRet' = "FALSE" /\ pending' = {}
                 ELSE pc' = "BroadcastLaunch" /\ initRet' = initRet /\ pending' = Cores
    /\ UNCHANGED <<hookVars, transparent, failures>>

\* KeGenericCallDpc(DpcRoutineInitializeGuest): the DPC on core c saves the
\* registers and calls VmxVirtualizeCurrentSystem with its stack pointer; it
\* interrupted whatever process was running there.  fail: the first VMX
\* instruction that reports failure.
DpcRoutineInitializeGuest(c) ==
    /\ pc = "BroadcastLaunch" /\ c \in pending /\ ~Halted
    /\ \E cr3 \in Cr3s, GuestStack \in Rsps,
          fail \in {"none", "VMCLEAR", "VMPTRLD", "VMLAUNCH"} :
          /\ fail # "none" => MayFail /\ core[c].mode # "off"
          /\ core' = [core EXCEPT ![CurrentVCpu(c)] =
                         VmxVirtualizeCurrentSystem(
                             [core[CurrentVCpu(c)] EXCEPT !.cr3 = cr3], GuestStack,
                             fail # "VMCLEAR", fail # "VMPTRLD", fail # "VMLAUNCH")]
          /\ failures' = Injected(fail # "none")
    /\ writes' = Written(writes, core, core', c, TRUE)
    /\ pending' = pending \ {c}
    /\ UNCHANGED <<pc, steps, initRet, heap, hookVars, transparent>>

\* What RAX may hold when a VMCALL fails in VMX root.
Leftovers(s) ==
    IF s.mode = "root" THEN {"STATUS_SUCCESS", "STATUS_UNSUCCESSFUL"} ELSE {"STATUS_SUCCESS"}

\* AsmVmxVmcall(VMCALL_TEST, ...) on the core the driver thread is on, and
\* VmxInitialize's return.
VmxInitializeTest ==
    /\ pc = "BroadcastLaunch" /\ BroadcastCompleted(pending) /\ ~Halted
    /\ \E c \in Cores, cr3 \in Cr3s, rsp \in Rsps, okResume \in BOOLEAN :
       \E leftover \in Leftovers(core[c]) :
          LET live == [core[c] EXCEPT !.cr3 = cr3]
              s == AsmVmxVmcall(Enter(live, "VMCALL_TEST"), "VMCALL_TEST",
                                rsp, okResume, leftover)
          IN  /\ ~okResume => MayFail /\ core[c].mode = "nonroot"
              /\ core' = [core EXCEPT ![c] = s]
              /\ writes' = Written(writes, core, core', c, FALSE)
              /\ failures' = Injected(~okResume)
              /\ IF s.fault
                 THEN UNCHANGED <<pc, steps, initRet>>
                 ELSE /\ steps' = Append(steps, [step |-> "VMCALL_TEST",
                                                 ok |-> s.status = "STATUS_SUCCESS"])
                      /\ IF s.status = "STATUS_SUCCESS"
                         THEN pc' = "running" /\ initRet' = "TRUE"
                         ELSE pc' = "init_failed" /\ initRet' = "FALSE"
    /\ UNCHANGED <<heap, pending, hookVars, transparent>>

\* ConfigureEptHook on page p: a hidden breakpoint.
ConfigureEptHook(p) ==
    /\ pc = "running" /\ ~Halted
    /\ SetHookState(EptHook(HookState, p))
    /\ UNCHANGED <<vmxVars, lastUnhook>>

\* ConfigureEptHook2 on page p: a hidden detour, or a watch on the accesses
\* of mask.
ConfigureEptHook2(p, mask, EptHiddenHook2) ==
    /\ pc = "running" /\ ~Halted
    /\ SetHookState(EptHook2(HookState, p, mask, EptHiddenHook2))
    /\ UNCHANGED <<vmxVars, lastUnhook>>

ConfigureEptHookUnHookSingleAddress(p) ==
    /\ pc = "running" /\ ~Halted
    /\ p \in HookedPagesList
    /\ SetHookState(EptHookUnHookSingleAddress(HookState, p))
    /\ lastUnhook' = p
    /\ UNCHANGED vmxVars

\* The guest makes an access the leaf of hooked page p does not permit.
EptViolation(p, access) ==
    /\ pc = "running" /\ ~Halted
    /\ p \in HookedPagesList
    /\ ~Permits(EptLeaf[p], access)
    /\ HookedEntryDetails[p].IsHidden \/ access \in HookedEntryDetails[p].Mask
    /\ SetHookState(EptHookHandleHookedPage(HookState, p, access))
    /\ UNCHANGED <<vmxVars, lastUnhook>>

\* The guest has run the one instruction: the monitor trap flag exits.
MtfExit(p) ==
    /\ pc = "running" /\ ~Halted
    /\ p \in HookedPagesList
    /\ HookedEntryDetails[p].Mtf
    /\ SetHookState(MtfHandleVmexit(HookState, p))
    /\ UNCHANGED <<vmxVars, lastUnhook>>

\* The debugger's !hide command.
TransparentHideDebugger ==
    /\ pc = "running" /\ ~Halted
    /\ ~transparent
    /\ transparent' = TRUE
    /\ UNCHANGED <<pc, steps, initRet, heap, core, pending, hookVars, failures, writes>>

\* VmxPerformTermination up to KeGenericCallDpc(DpcRoutineTerminateGuest).
VmxPerformTerminationBegin ==
    /\ pc = "running" /\ ~Halted
    /\ LET g == VmxPerformTerminationPrologue(
                    [transparent |-> transparent, hooks |-> HookState])
       IN  /\ transparent' = g.transparent
           /\ SetHookState(g.hooks)
    /\ pending' = Cores
    /\ pc' = "BroadcastTerminate"
    /\ UNCHANGED <<steps, initRet, heap, core, failures, writes, lastUnhook, call, cr3Vars>>

\* The terminate DPC on core c: VmxTerminate.
DpcRoutineTerminateGuest(c) ==
    /\ pc = "BroadcastTerminate" /\ c \in pending /\ ~Halted
    /\ \E cr3 \in Cr3s, rsp \in Rsps, okClear \in BOOLEAN :
       \E leftover \in Leftovers(core[c]) :
          /\ ~okClear => MayFail /\ core[c].mode = "nonroot"
          /\ core' = [core EXCEPT ![CurrentVCpu(c)] =
                         VmxTerminate([core[CurrentVCpu(c)] EXCEPT !.cr3 = cr3],
                                      rsp, okClear, leftover)]
          /\ failures' = Injected(~okClear)
    /\ writes' = Written(writes, core, core', c, TRUE)
    /\ pending' = pending \ {c}
    /\ UNCHANGED <<pc, steps, initRet, heap, hookVars, transparent>>

\* VmxPerformTermination after the broadcast returned.
VmxPerformTerminationEnd ==
    /\ pc = "BroadcastTerminate" /\ BroadcastCompleted(pending) /\ ~Halted
    /\ heap' = VmxPerformTerminationEpilogue(heap)
    /\ pc' = "terminated"
    /\ UNCHANGED <<steps, initRet, core, pending, hookVars, transparent, failures, writes>>

Next ==
    \/ VmxInitializeBegin
    \/ \E c \in Cores : DpcRoutineVirtualize(c)
    \/ VmxInitializeAllocate
    \/ \E c \in Cores : DpcRoutineInitializeGuest(c)
    \/ VmxInitializeTest
    \/ \E p \in Pages : ConfigureEptHook(p)
    \/ TransparentHideDebugger
    \/ VmxPerformTerminationBegin
    \/ \E c \in Cores : DpcRoutineTerminateGuest(c)
    \/ VmxPerformTerminationEnd

Spec == Init /\ [][Next]_vars

\* ------------------------------------------- the hooks of a running system
AllSucceed == [f \in {"cpuidVmx", "enableVmxOutsideSmx", "okEptState", "okEptFeatures",
                       "okMtrr", "okPool", "okEptInit"} |-> TRUE]

\* The state VmxInitialize leaves when every step succeeded.
Virtualized ==
    LET t0 == [steps |-> <<>>, ret |-> "none",
               heap |-> [r \in GlobalRes |-> IF r = "g_GuestState" THEN "live" ELSE "none"]]
        t1 == VmxPerformVirtualizationOnAllCores(t0, AllSucceed)
        c0 == [c \in Cores |-> InitCore]
        c1 == [c \in Cores |-> VmxPerformVirtualizationOnSpecificCore(c0[c], TRUE, TRUE)]
        r  == VmxInitializeLoop(c1, 0, [core |-> NCores, what |-> "none"])
        t2 == InitStep(t1, "AllocatePerCoreBuffers", r.ok)
        t3 == InitAlloc(t2, "VmxAllocateInvalidMsrBimap", "g_MsrBitmapInvalidMsrs", TRUE)
        t4 == InitStep(t3, "DpcRoutineInitializeGuest", TRUE)
        c2 == [c \in Cores |-> VmxVirtualizeCurrentSystem(
                                   [r.cs[c] EXCEPT !.cr3 = "system"], 0, TRUE, TRUE, TRUE)]
        c3 == [c2 EXCEPT ![0] = AsmVmxVmcall(Enter(c2[0], "VMCALL_TEST"), "VMCALL_TEST",
                                             0, TRUE, "STATUS_SUCCESS")]
        w1 == UNION {Written({}, c0, [c0 EXCEPT ![c] = c1[c]], c, TRUE) : c \in Cores}
        w2 == Written(w1, c1, r.cs, 0, FALSE)
        w3 == w2 \cup UNION {Written({}, r.cs, [r.cs EXCEPT ![c] = c2[c]], c, TRUE) : c \in Cores}
    IN  [steps |-> Append(t4.steps, [step |-> "VMCALL_TEST", ok |-> TRUE]),
         heap |-> t4.heap, core |-> c3, writes |-> Written(w3, c2, c3, 0, FALSE)]

InitRunning ==
    /\ pc = "running"
    /\ steps = Virtualized.steps
    /\ initRet = "TRUE"
    /\ heap = Virtualized.heap
    /\ core = Virtualized.core
    /\ pending = {}
    /\ HookedPagesList = {}
    /\ transparent = FALSE
    /\ failures = 0
    /\ writes = Virtualized.writes
    /\ EptLeaf = [p \in Pages |-> IdentityLeaf(p)]
    /\ HookedEntryDetails = [p \in {} |-> {}]
    /\ lastUnhook = 0
    /\ call = NoCall
    /\ InitMovToCr3

NextHooks ==
    \/ \E p \in Pages : ConfigureEptHook(p)
    \/ \E p \in Pages, mask \in AccessMasks, EptHiddenHook2 \in BOOLEAN :
          ConfigureEptHook2(p, mask, EptHiddenHook2)
    \/ \E p \in Pages : ConfigureEptHookUnHookSingleAddress(p)
    \/ \E p \in Pages, access \in {"r", "w", "x"} : EptViolation(p, access)
    \/ \E p \in Pages : MtfExit(p)

SpecHooks == InitRunning /\ [][NextHooks]_vars

\* ------------------------------------------------- calls of the helpers
\* A helper is called once, with inputs in, and leaves out.
Call(fn, in, out) ==
    /\ call' = [fn |-> fn, in |-> in, out |-> out]
    /\ UNCHANGED <<pc, steps, initRet, heap, core, pending, HookedPagesList, transparent,
                   failures, writes, EptLeaf, HookedEntryDetails, lastUnhook, cr3Vars>>

CallVmxCompatibleStrlen ==
    /\ call = NoCall
    /\ \E zeros \in ZeroSets(MaxZeros), mem \in MemoryInputs, S \in Addresses :
       \E m \in {StringInput(mem, zeros, S)} :
           Call("VmxCompatibleStrlen", m, VmxCompatibleStrlen(m))

CallVmxCompatibleWcslen ==
    /\ call = NoCall
    /\ \E zeros \in ZeroSets(MaxZeros), mem \in MemoryInputs, S \in Addresses :
       \E m \in {StringInput(mem, zeros, S)} :
           Call("VmxCompatibleWcslen", m, VmxCompatibleWcslen(m))

\* The states a core passes through from DriverEntry to the unload: before
\* and after VMXON, with the VMCS loaded, set up, launched, in the VM-exit
\* handler, and after VMXOFF.
CoreSamples ==
    LET off == InitCore
        on == VmxAllocateBuffers(
                  VmxPerformVirtualizationOnSpecificCore(off, TRUE, TRUE), "none").s
    IN  UNION {
          LET live == Enter([on EXCEPT !.cr3 = cr3], "VmxVirtualizeCurrentSystem")
              cleared == VmxClearVmcsState(live, TRUE)
              loaded == VmxLoadVmcs(cleared, TRUE)
              setup == VmxSetupVmcs(loaded, rsp)
              guest == VmxVirtualizeCurrentSystem([on EXCEPT !.cr3 = cr3], rsp,
                                                  TRUE, TRUE, TRUE)
              exited == VmExit(guest, AsmVmxVmcallAddress, rsp, VmcallInstructionLength)
          IN  {off, on, live, cleared, loaded, setup, guest, exited,
               VmxVmxoff(exited, TRUE),
               VmxVirtualizeCurrentSystem([on EXCEPT !.cr3 = cr3], rsp, TRUE, FALSE, TRUE)}
          : cr3 \in Cr3s, rsp \in Rsps}

\* VmxSetupVmcs on a core that has loaded its VMCS.
CallVmxSetupVmcs ==
    /\ call = NoCall
    /\ \E s \in CoreSamples, GuestStack \in Rsps :
           /\ s.mode = "root" /\ s.vmcs = "current"
           /\ Call("VmxSetupVmcs", [s |-> s, GuestStack |-> GuestStack],
                   VmxSetupVmcs(s, GuestStack))

\* IA32_FEATURE_CONTROL as the firmware left it.
FeatureControl == [Lock : BOOLEAN, EnableVmxOutsideSmx : BOOLEAN]

\* VmxCheckVmxSupport reads CPUID and the MSR; it has no __writemsr.
CallVmxCheckVmxSupport ==
    /\ call = NoCall
    /\ \E cpuidVmx \in BOOLEAN, msr \in FeatureControl :
           Call("VmxCheckVmxSupport", [cpuidVmx |-> cpuidVmx, msr |-> msr],
                [ret |-> VmxCheckVmxSupport(cpuidVmx, msr.EnableVmxOutsideSmx),
                 msr |-> msr, wrmsr |-> <<>>])

CallVmxCheckIsOnVmxRoot ==
    /\ call = NoCall
    /\ \E s \in CoreSamples, inGuest \in {"#UD", "skipped"} :
           Call("VmxCheckIsOnVmxRoot", [s |-> s, inGuest |-> inGuest],
                [ret |-> VmxCheckIsOnVmxRoot(s, inGuest),
                 vmread |-> VmreadLinkPointer(s, inGuest)])

\* A core's configuration before the call: untouched, or with everything on.
ControlSamples ==
    {DefaultControls,
     [ExternalInterruptExiting |-> TRUE, RdtscExiting |-> TRUE, RdpmcExiting |-> TRUE,
      MovToDebugRegistersExiting |-> TRUE, MovToControlRegisterExiting |-> {},
      ExceptionBitmap |-> {0}, MsrBitmapWrite |-> {0}, MsrBitmapRead |-> {0},
      IoBitmap |-> {0}, EferSyscallHook |-> TRUE]}

CallConfigureOnSingleCore ==
    /\ call = NoCall
    /\ \E wrapper \in PlainWrappers \cup ArgumentWrappers, TargetCoreId \in Cores,
          before \in [Cores -> ControlSamples] :
       \E arg \in IF wrapper \in PlainWrappers THEN {"NULL"}
                   ELSE IF wrapper = "ConfigureEnableMovToControlRegisterExitingOnSingleCore"
                        THEN {PointerTo(object) : object \in Args}
                   ELSE Args :
           Call(wrapper,
                [TargetCoreId |-> TargetCoreId, arg |-> arg, before |-> before],
                ConfigureOnSingleCore(wrapper, [cores |-> before, ran |-> {}],
                                      TargetCoreId, arg))

CallConfigureEnableEferSyscallEventsOnAllProcessors ==
    /\ call = NoCall
    /\ \E flag \in BOOLEAN, SyscallHookType \in SyscallHookTypes,
          before \in [Cores -> ControlSamples] :
           Call("ConfigureEnableEferSyscallEventsOnAllProcessors",
                [flag |-> flag, SyscallHookType |-> SyscallHookType, before |-> before],
                ConfigureEnableEferSyscallEventsOnAllProcessors(
                    [flag |-> flag, cores |-> before], SyscallHookType))

CallConfigureEnableEferSyscallHookOnSingleCore ==
    /\ call = NoCall
    /\ \E flag \in BOOLEAN, SyscallHookType \in SyscallHookTypes, TargetCoreId \in Cores,
          before \in [Cores -> ControlSamples] :
           Call("ConfigureEnableEferSyscallHookOnSingleCore",
                [flag |-> flag, SyscallHookType |-> SyscallHookType,
                 TargetCoreId |-> TargetCoreId, before |-> before],
                ConfigureEnableEferSyscallHookOnSingleCore(
                    [flag |-> flag, cores |-> before], TargetCoreId, SyscallHookType))

\* ---- the buffers of the virtual processors and the VMCS fields set from them
\* The pool hands out the next free block; blocks never overlap.
ExAllocatePool(pool, size) == [address |-> pool, pool |-> pool + size]

VirtualAddressToPhysicalAddress(va) == <<"pa", va>>

\* VmxAllocateVmmStack, VmxAllocateMsrBitmap and VmxAllocateIoBitmaps for one
\* processor, in the order of the loop of VmxInitialize.
VmxAllocateVCpu(pool) ==
    LET stack == ExAllocatePool(pool, VMM_STACK_SIZE)
        msr == ExAllocatePool(stack.pool, PageSize)
        ioA == ExAllocatePool(msr.pool, PageSize)
        ioB == ExAllocatePool(ioA.pool, PageSize)
    IN  [VCpu |-> [VmmStack |-> stack.address,
                   MsrBitmapVirtualAddress |-> msr.address,
                   MsrBitmapPhysicalAddress |-> VirtualAddressToPhysicalAddress(msr.address),
                   IoBitmapVirtualAddressA |-> ioA.address,
                   IoBitmapPhysicalAddressA |-> VirtualAddressToPhysicalAddress(ioA.address),
                   IoBitmapVirtualAddressB |-> ioB.address,
                   IoBitmapPhysicalAddressB |-> VirtualAddressToPhysicalAddress(ioB.address)],
         pool |-> ioB.pool]

RECURSIVE VmxAllocateAllVCpus(_, _, _)
VmxAllocateAllVCpus(g, pool, ProcessorID) ==
    IF ProcessorID >= NCores THEN g
    ELSE LET a == VmxAllocateVCpu(pool)
         IN  VmxAllocateAllVCpus(g @@ (ProcessorID :> a.VCpu), a.pool, ProcessorID + 1)

\* A host stack pointer taken from the end of the stack, not from its last byte.
HostRspPastTheEnd(VmmStack) ==
    LET HostRsp == VmmStack + VMM_STACK_SIZE
    IN  HostRsp - (HostRsp % 16)

\* HostRsp = (VmmStack + VMM_STACK_SIZE - 1) & ~(16 - 1).
HostRspOf(VmmStack) ==
    LET HostRsp == VmmStack + VMM_STACK_SIZE - 1
    IN  HostRsp - (HostRsp % 16)

\* A setup that gives the guest the exit handler as its entry point.
VmxSetupVmcsFieldsGuestAtHandler(GuestState, CurrentCore, GuestStack, EptPointer) ==
    LET VCpu == GuestState[CurrentCore]
    IN  [VMCS_CTRL_MSR_BITMAP_ADDRESS |-> VCpu.MsrBitmapPhysicalAddress,
         VMCS_CTRL_IO_BITMAP_A_ADDRESS |-> VCpu.IoBitmapPhysicalAddressA,
         VMCS_CTRL_IO_BITMAP_B_ADDRESS |-> VCpu.IoBitmapPhysicalAddressB,
         VMCS_CTRL_EPT_POINTER |-> EptPointer,
         VIRTUAL_PROCESSOR_ID |-> VPID_TAG,
         VMCS_GUEST_RSP |-> GuestStack,
         VMCS_GUEST_RIP |-> AsmVmexitHandler,
         VMCS_HOST_RSP |-> HostRspOf(VCpu.VmmStack),
         VMCS_HOST_RIP |-> AsmVmxRestoreState]

\* A setup that takes the buffers of the first processor.
VmxSetupVmcsFieldsOfFirstVCpu(GuestState, CurrentCore, GuestStack, EptPointer) ==
    LET VCpu == GuestState[0]
    IN  [VMCS_CTRL_MSR_BITMAP_ADDRESS |-> VCpu.MsrBitmapPhysicalAddress,
         VMCS_CTRL_IO_BITMAP_A_ADDRESS |-> VCpu.IoBitmapPhysicalAddressA,
         VMCS_CTRL_IO_BITMAP_B_ADDRESS |-> VCpu.IoBitmapPhysicalAddressB,
         VMCS_CTRL_EPT_POINTER |-> EptPointer,
         VIRTUAL_PROCESSOR_ID |-> VPID_TAG,
         VMCS_GUEST_RSP |-> GuestStack,
         VMCS_GUEST_RIP |-> AsmVmxRestoreState,
         VMCS_HOST_RSP |-> HostRspOf(VCpu.VmmStack),
         VMCS_HOST_RIP |-> AsmVmexitHandler]

\* The address fields VmxSetupVmcs writes for VCpu = &g_GuestState[CurrentCore];
\* EptPointer: g_EptState->EptPointer.
VmxSetupVmcsFields(GuestState, CurrentCore, GuestStack, EptPointer) ==
    LET VCpu == GuestState[CurrentCore]
    IN  [VMCS_CTRL_MSR_BITMAP_ADDRESS |-> VCpu.MsrBitmapPhysicalAddress,
         VMCS_CTRL_IO_BITMAP_A_ADDRESS |-> VCpu.IoBitmapPhysicalAddressA,
         VMCS_CTRL_IO_BITMAP_B_ADDRESS |-> VCpu.IoBitmapPhysicalAddressB,
         VMCS_CTRL_EPT_POINTER |-> EptPointer,
         VIRTUAL_PROCESSOR_ID |-> VPID_TAG,
         VMCS_GUEST_RSP |-> GuestStack,
         VMCS_GUEST_RIP |-> AsmVmxRestoreState,
         VMCS_HOST_RSP |-> HostRspOf(VCpu.VmmStack),
         VMCS_HOST_RIP |-> AsmVmexitHandler]

EptPointers == {"EptPointerA", "EptPointerB"}

\* VmxSetupVmcs on every core, on the buffers the loop of VmxInitialize
\* allocated from a pool that starts at base.
CallVmxSetupVmcsOnAllCores ==
    /\ call = NoCall
    /\ \E base \in 0 .. MaxBase, EptPointer \in EptPointers, GuestStack \in [Cores -> Rsps] :
           LET GuestState == VmxAllocateAllVCpus(<<>>, base, 0)
           IN  Call("VmxSetupVmcsOnAllCores",
                    [g_GuestState |-> GuestState, EptPointer |-> EptPointer,
                     GuestStack |-> GuestStack],
                    [c \in Cores |->
                        VmxSetupVmcsFields(GuestState, c, GuestStack[c], EptPointer)])

\* ---- VM entries and VM exits on the fields of the VMCS
\* A VM entry loads RIP and RSP from the guest-state area.
VmEntryLoad(vmcs) ==
    [rip |-> vmcs.VMCS_GUEST_RIP, rsp |-> vmcs.VMCS_GUEST_RSP, mode |-> "nonroot"]

\* A VM exit saves the guest's RIP and RSP and loads the host-state area.
VmExitLoad(vmcs, regs) ==
    [vmcs |-> [vmcs EXCEPT !.VMCS_GUEST_RIP = regs.rip, !.VMCS_GUEST_RSP = regs.rsp],
     regs |-> [rip |-> vmcs.VMCS_HOST_RIP, rsp |-> vmcs.VMCS_HOST_RSP, mode |-> "root"]]

\* Where the guest may stand when it exits.
GuestPositions == [rip : {AsmVmxRestoreState, AsmVmxVmcallAddress}, rsp : Rsps]

RECURSIVE ExitSequences(_)
ExitSequences(n) ==
    IF n = 0 THEN {<<>>}
    ELSE LET shorter == ExitSequences(n - 1)
         IN  shorter \cup {Append(q, g) : q \in {x \in shorter : Len(x) = n - 1},
                                          g \in GuestPositions}

\* The guest runs to each position of at in turn and exits there; the
\* handler resumes it with VMRESUME.  run: what was loaded so far.
RECURSIVE GuestRun(_, _, _)
GuestRun(vmcs, at, run) ==
    IF at = <<>> THEN run
    ELSE LET exit == VmExitLoad(vmcs, [rip |-> Head(at).rip, rsp |-> Head(at).rsp])
         IN  GuestRun(exit.vmcs, Tail(at),
                      [run EXCEPT !.exits = Append(@, exit.regs),
                                  !.resumed = Append(@, VmEntryLoad(exit.vmcs))])

\* VmxVirtualizeCurrentSystem(GuestStack) on one core and the VM exits
\* that follow a successful VMLAUNCH.
CallVmxVirtualizeCurrentSystem ==
    /\ call = NoCall
    /\ \E c \in Cores, GuestStack \in Rsps, okLaunch \in BOOLEAN,
          at \in ExitSequences(MaxExits) :
           LET GuestState == VmxAllocateAllVCpus(<<>>, 0, 0)
               on == VmxAllocateBuffers(
                         VmxPerformVirtualizationOnSpecificCore(InitCore, TRUE, TRUE),
                         "none").s
               s == VmxVirtualizeCurrentSystem(on, GuestStack, TRUE, TRUE, okLaunch)
               vmcs == VmxSetupVmcsFields(GuestState, c, GuestStack, "EptPointerA")
               launched == s.mode = "nonroot"
           IN  /\ ~launched => at = <<>>
               /\ Call("VmxVirtualizeCurrentSystem",
                        [c |-> c, GuestStack |-> GuestStack, okLaunch |-> okLaunch, at |-> at],
                        IF launched
                        THEN GuestRun(vmcs, at,
                                      [s |-> s, launched |-> <<VmEntryLoad(vmcs)>>,
                                       exits |-> <<>>, resumed |-> <<>>])
                        ELSE [s |-> s, launched |-> <<>>, exits |-> <<>>, resumed |-> <<>>])

\* Values the processor can hold: the upper half of CR0 and CR4 is reserved
\* and zero, an MSR reports a reserved bit as fixed to 0, and a bit FIXED0
\* reports as 1 is reported as 1 by FIXED1.
CrValues == 0 .. Pow2(LowBits) - 1
BitsOf(n) == {i \in 0 .. RegBits - 1 : (n \div Pow2(i)) % 2 = 1}
FixedPairs ==
    {f \in CrValues \X CrValues : BitsOf(f[1]) \subseteq BitsOf(f[2])}

CallVmxFixCr4AndCr0Bits ==
    /\ call = NoCall
    /\ \E Cr0 \in CrValues, Cr4 \in CrValues, f0 \in FixedPairs, f4 \in FixedPairs :
           LET msr == [IA32_VMX_CR0_FIXED0 |-> f0[1], IA32_VMX_CR0_FIXED1 |-> f0[2],
                       IA32_VMX_CR4_FIXED0 |-> f4[1], IA32_VMX_CR4_FIXED1 |-> f4[2]]
           IN  Call("VmxFixCr4AndCr0Bits", [Cr0 |-> Cr0, Cr4 |-> Cr4, msr |-> msr],
                    VmxFixCr4AndCr0BitsValues(Cr0, Cr4, msr))

NextCalls ==
    \/ CallVmxFixCr4AndCr0Bits
    \/ CallVmxVirtualizeCurrentSystem
    \/ CallVmxSetupVmcsOnAllCores
    \/ CallConfigureOnSingleCore
    \/ CallConfigureEnableEferSyscallEventsOnAllProcessors
    \/ CallConfigureEnableEferSyscallHookOnSingleCore
    \/ CallVmxCompatibleStrlen
    \/ CallVmxCompatibleWcslen
    \/ CallVmxSetupVmcs
    \/ CallVmxCheckVmxSupport
    \/ CallVmxCheckIsOnVmxRoot

SpecCalls == InitRunning /\ [][NextCalls]_vars

\* ------------------------------------------------- MOV-to-CR3 exiting
\* ConfigureEnableMovToCr3ExitingOnAllProcessors up to the start of its
\* broadcast: the flag is written first.
ConfigureEnableMovToCr3ExitingOnAllProcessors ==
    /\ configure.routine = "none"
    /\ g_CheckPageFaultsAndMov2Cr3VmexitsWithUserDebugger' = TRUE
    /\ configure' = [configure EXCEPT
                        !.routine = "ConfigureEnableMovToCr3ExitingOnAllProcessors",
                        !.pending = Cores]
    /\ UNCHANGED <<Cr3LoadExiting, Mov2Cr3Exit, vmxVarsNoCr3, hookVarsNoCr3>>

\* BroadcastEnableMovToCr3ExitingOnAllProcessors: the DPC on core c sets
\* CR3-load exiting in the core's VMCS.
DpcRoutineEnableMovToCr3Exiting(c) ==
    /\ configure.routine = "ConfigureEnableMovToCr3ExitingOnAllProcessors"
    /\ c \in configure.pending
    /\ Cr3LoadExiting' = [Cr3LoadExiting EXCEPT ![c] = TRUE]
    /\ configure' = [configure EXCEPT !.pending = @ \ {c}]
    /\ UNCHANGED <<g_CheckPageFaultsAndMov2Cr3VmexitsWithUserDebugger, Mov2Cr3Exit,
                   vmxVarsNoCr3, hookVarsNoCr3>>

\* ConfigureDisableMovToCr3ExitingOnAllProcessors up to the start of its
\* broadcast: the flag is written first.
ConfigureDisableMovToCr3ExitingOnAllProcessors ==
    /\ configure.routine = "none"
    /\ g_CheckPageFaultsAndMov2Cr3VmexitsWithUserDebugger' = FALSE
    /\ configure' = [configure EXCEPT
                        !.routine = "ConfigureDisableMovToCr3ExitingOnAllProcessors",
                        !.pending = Cores]
    /\ UNCHANGED <<Cr3LoadExiting, Mov2Cr3Exit, vmxVarsNoCr3, hookVarsNoCr3>>

\* BroadcastDisableMovToCr3ExitingOnAllProcessors: the DPC on core c clears
\* CR3-load exiting in the core's VMCS.
DpcRoutineDisableMovToCr3Exiting(c) ==
    /\ configure.routine = "ConfigureDisableMovToCr3ExitingOnAllProcessors"
    /\ c \in configure.pending
    /\ Cr3LoadExiting' = [Cr3LoadExiting EXCEPT ![c] = FALSE]
    /\ configure' = [configure EXCEPT !.pending = @ \ {c}]
    /\ UNCHANGED <<g_CheckPageFaultsAndMov2Cr3VmexitsWithUserDebugger, Mov2Cr3Exit,
                   vmxVarsNoCr3, hookVarsNoCr3>>

\* The broadcast has run on every core and the Configure... routine returns.
ConfigureMovToCr3ExitingReturn ==
    /\ configure.routine # "none"
    /\ BroadcastCompleted(configure.pending)
    /\ configure' = [configure EXCEPT !.routine = "none", !.returned = configure.routine]
    /\ UNCHANGED <<g_CheckPageFaultsAndMov2Cr3VmexitsWithUserDebugger, Cr3LoadExiting,
                   Mov2Cr3Exit, vmxVarsNoCr3, hookVarsNoCr3>>

\* The guest on core c writes CR3: with CR3-load exiting set the core takes a
\* VM exit, whose handler reads the flag.
GuestMovToCr3(c) ==
    /\ Cr3LoadExiting[c]
    /\ Mov2Cr3Exit' = [Mov2Cr3Exit EXCEPT ![c] =
                           IF g_CheckPageFaultsAndMov2Cr3VmexitsWithUserDebugger
                           THEN "TRUE" ELSE "FALSE"]
    /\ UNCHANGED <<g_CheckPageFaultsAndMov2Cr3VmexitsWithUserDebugger, Cr3LoadExiting,
                   configure, vmxVarsNoCr3, hookVarsNoCr3>>

NextMovToCr3 ==
    \/ ConfigureEnableMovToCr3ExitingOnAllProcessors
    \/ \E c \in Cores : DpcRoutineEnableMovToCr3Exiting(c)
    \/ ConfigureDisableMovToCr3ExitingOnAllProcessors
    \/ \E c \in Cores : DpcRoutineDisableMovToCr3Exiting(c)
    \/ ConfigureMovToCr3ExitingReturn
    \/ \E c \in Cores : GuestMovToCr3(c)

SpecMovToCr3 == InitRunning /\ [][NextMovToCr3]_vars

\* ------------------------------------------------------------------ claims
Ops(s) == [i \in DOMAIN s.log |-> s.log[i].op]

HasOp(s, op) == \E i \in DOMAIN s.log : s.log[i].op = op

\* C1: when VMLAUNCH fails in VmxVirtualizeCurrentSystem, the VM-instruction
\* error is read, then VMXOFF is executed (in VMX operation, so it takes the
\* core out of it), the routine returns FALSE and HasLaunched is FALSE.
C1_VmlaunchFailureDevirtualizes ==
    \A c \in Cores :
        (core[c].routine = "VmxVirtualizeCurrentSystem" /\ HasOp(core[c], "VMLAUNCH_FAIL")) =>
            LET l == core[c].log
                n == Len(l)
            IN  /\ n >= 3
                /\ l[n - 2].op = "VMLAUNCH_FAIL"
                /\ l[n - 1].op = "VMREAD_ERROR" /\ l[n - 1].mode = "root"
                /\ l[n].op = "VMXOFF" /\ l[n].mode = "root"
                /\ core[c].mode = "off"
                /\ core[c].ret = "FALSE"
                /\ ~core[c].HasLaunched
                /\ ~core[c].fault

C1_Witness ==
    \E c \in Cores :
        /\ core[c].routine = "VmxVirtualizeCurrentSystem"
        /\ HasOp(core[c], "VMLAUNCH_FAIL")
        /\ core[c].ret = "FALSE"

VmxInstructionFailed(s) ==
    \E op \in {"VMCLEAR_FAIL", "VMPTRLD_FAIL", "VMLAUNCH_FAIL", "VMRESUME_FAIL"} : HasOp(s, op)

\* C2: after any failed VMCLEAR, VMPTRLD, VMLAUNCH or VMRESUME the routine has
\* read the VM-instruction error and executed VMXOFF, and the core is outside
\* VMX operation.
C2_EveryVmxFailureDevirtualizes ==
    \A c \in Cores :
        VmxInstructionFailed(core[c]) =>
            /\ HasOp(core[c], "VMREAD_ERROR")
            /\ HasOp(core[c], "VMXOFF")
            /\ core[c].mode = "off"

\* C3: after VmxVmxoff the saved state is the VMCS guest RIP advanced by the
\* exit instruction length and the VMCS guest RSP, CR3 is the VMCS guest CR3,
\* and the two VmxReturn...ForVmxoff routines return the saved values.
C3_VmxoffStateIsGuestState ==
    \A c \in Cores :
        LET s == core[c]
        IN  (s.routine = "VmxTerminate" /\ s.VmxoffState.IsVmxoffExecuted) =>
                /\ s.VmxoffState.GuestRip = s.GuestRip + s.ExitInstructionLength
                /\ s.VmxoffState.GuestRip = AsmVmxVmcallAddress + VmcallInstructionLength
                /\ s.VmxoffState.GuestRsp = s.GuestRsp
                /\ s.cr3 = s.GuestCr3
                /\ VmxReturnInstructionPointerForVmxoff(s) = s.GuestRip + s.ExitInstructionLength
                /\ VmxReturnStackPointerForVmxoff(s) = s.GuestRsp

C3_Witness ==
    \E c \in Cores :
        LET s == core[c]
        IN  /\ s.routine = "VmxTerminate" /\ s.VmxoffState.IsVmxoffExecuted
            /\ s.ret = "TRUE" /\ s.mode = "off"
            /\ s.GuestCr3 = "user" /\ s.HostCr3 = "system"
            /\ s.GuestRsp = MaxRsp

IsVmclear(op) == op \in {"VMCLEAR", "VMCLEAR_FAIL"}

\* The teardown steps of VmxVmxoff in the log of VmxTerminate, in order.
TeardownOrder(l) ==
    \A i \in DOMAIN l :
        /\ IsVmclear(l[i].op) => \E j \in 1 .. (i - 1) : l[j].op = "RESTORE_REGISTERS"
        /\ l[i].op = "VMXOFF" => \E j \in 1 .. (i - 1) : IsVmclear(l[j].op)
        /\ l[i].op = "CR4_CLEAR_VMXE" =>
              /\ l[i].mode = "off"
              /\ \E j \in 1 .. (i - 1) : l[j].op = "VMXOFF"

\* C4: in the teardown of VmxVmxoff the registers are restored, then VMCLEAR,
\* then VMXOFF, then CR4.VMXE is cleared; CR4.VMXE is cleared only outside VMX
\* operation and VMXOFF is executed only on a VMCS that has been cleared.
C4_VmxoffOnlyAfterVmcsCleared ==
    \A c \in Cores :
        core[c].routine = "VmxTerminate" =>
            /\ TeardownOrder(core[c].log)
            /\ \A i \in DOMAIN core[c].log :
                  core[c].log[i].op = "VMXOFF" => core[c].log[i].vmcs = "clear"

\* C5: the terminate broadcast starts only once every EPT hook is removed and
\* transparent mode is off, and the EPT page tables, g_EptState, the pool
\* manager and g_GuestState are freed only after the terminate DPC has run on
\* every core.
C5_TerminationOrder ==
    /\ (pc = "BroadcastTerminate" \/ \E c \in Cores : core[c].routine = "VmxTerminate") =>
           (HookedPagesList = {} /\ ~transparent)
    /\ (\E r \in {"EptPageTable", "g_EptState", "PoolManager", "g_GuestState"} :
            heap[r] = "freed") =>
           /\ BroadcastCompleted(pending)
           /\ \A c \in Cores : core[c].routine = "VmxTerminate"
    /\ pc = "BroadcastTerminate" =>
           \A r \in {"EptPageTable", "g_EptState", "PoolManager", "g_GuestState"} :
               heap[r] = "live"

C5_Witness ==
    /\ pc = "terminated"
    /\ \A c \in Cores : core[c].routine = "VmxTerminate" /\ core[c].ret = "TRUE"
    /\ \A r \in {"EptPageTable", "g_EptState", "PoolManager", "g_GuestState"} :
           heap[r] = "freed"

NothingLive ==
    /\ \A r \in GlobalRes \ {"g_GuestState"} : heap[r] # "live"
    /\ \A c \in Cores : \A r \in CoreRes : core[c].region[r] # "live"

\* C6: once VmxInitialize has returned TRUE and VmxPerformTermination has
\* completed, every core has CR4.VMXE clear and HasLaunched FALSE and every
\* region allocated by the initialization has been released.
C6_TerminationReleasesEverything ==
    (initRet = "TRUE" /\ pc = "terminated") =>
        /\ \A c \in Cores : ~core[c].cr4vmxe /\ ~core[c].HasLaunched
        /\ NothingLive

FailedStep(names) ==
    \E i \in DOMAIN steps : steps[i].step \in names /\ ~steps[i].ok

\* C7: when the initialization fails because VMX or an EPT feature is missing,
\* it returns FALSE with nothing allocated, CR4.VMXE set on no core and no
\* broadcast issued.
C7_UnsupportedHardwareNoSideEffects ==
    FailedStep({"VmxCheckVmxSupport", "EptCheckFeatures"}) =>
        /\ initRet = "FALSE"
        /\ NothingLive
        /\ \A c \in Cores : ~core[c].cr4vmxe
        /\ \A i \in DOMAIN steps : steps[i].step # "BroadcastVmxVirtualizationAllCores"

\* C8: when an allocation of the initialization fails, the operation returns
\* FALSE and every allocation the initialization made before it has been freed.
C8_AllocationFailureFreesEverything ==
    /\ FailedStep({"AllocateEptState", "PoolManagerInitialize", "AllocatePerCoreBuffers",
                   "VmxAllocateInvalidMsrBimap"}) =>
           (initRet = "FALSE" /\ NothingLive)
    /\ \A c \in Cores :
           (core[c].routine = "VmxPerformVirtualizationOnSpecificCore"
                /\ core[c].ret = "FALSE") =>
               \A r \in CoreRes : core[c].region[r] # "live"

\* C9: VmxInitialize returns TRUE only if the guest is launched and running in
\* VMX non-root on every logical processor.
C9_InitializeTrueOnlyIfEveryCoreLive ==
    (initRet = "TRUE" /\ pc = "running") =>
        \A c \in Cores :
            /\ core[c].HasLaunched
            /\ core[c].mode = "nonroot"
            /\ core[c].vmcs = "launched"

\* The steps of VmxPerformVirtualizationOnAllCores run so far follow order,
\* and no step was run after a step that failed.
InitOrderFollows(order) ==
    LET named == {order[i] : i \in DOMAIN order}
        done == SelectSeq(StepNames(steps), LAMBDA n : n \in named)
    IN  /\ Len(done) <= Len(order)
        /\ \A i \in DOMAIN done : done[i] = order[i]
        /\ \A i \in DOMAIN steps : \A j \in 1 .. (i - 1) : steps[j].ok

\* C10 as claimed: VMX support check, EPT feature detection, MTRR map, EPT
\* initialization, pool manager initialization, broadcast, each step only
\* after every earlier step succeeded.
C10_EptInitBeforePoolManager ==
    InitOrderFollows(<<"VmxCheckVmxSupport", "EptCheckFeatures", "EptBuildMtrrMap",
                       "EptLogicalProcessorInitialize", "PoolManagerInitialize",
                       "BroadcastVmxVirtualizationAllCores">>)

\* C10 amended: VMX support check, allocation of g_EptState, EPT feature
\* detection, MTRR map, pool manager initialization, EPT initialization,
\* broadcast, each step only after every earlier step succeeded; the
\* broadcast is never issued after a failed step.
C10_InitializationOrder ==
    InitOrderFollows(<<"VmxCheckVmxSupport", "AllocateEptState", "EptCheckFeatures",
                       "EptBuildMtrrMap", "PoolManagerInitialize",
                       "EptLogicalProcessorInitialize",
                       "BroadcastVmxVirtualizationAllCores">>)

C10_Witness ==
    /\ pc = "BroadcastVirtualize"
    /\ Len(steps) = 7
    /\ steps[5].step = "PoolManagerInitialize" /\ steps[5].ok
    /\ steps[6].step = "EptLogicalProcessorInitialize" /\ steps[6].ok
    /\ steps[7].step = "BroadcastVmxVirtualizationAllCores"

BufferPointers == {"VmmStack", "MsrBitmap", "IoBitmapA", "IoBitmapB"}

AfterLaunchDpc == {"VmxVirtualizeCurrentSystem", "VMCALL_TEST", "VmxTerminate"}

\* C12: the launch broadcast starts on a core only after the virtualization
\* broadcast has run on every core, and VMCALL_TEST is issued only after the
\* launch broadcast has run on every core.
C12_BroadcastsDoNotOverlap ==
    /\ (\E c \in Cores : core[c].routine \in AfterLaunchDpc) =>
           /\ pc # "BroadcastVirtualize"
           /\ \A d \in Cores : core[d].routine # "none"
    /\ (\/ \E c \in Cores : core[c].routine = "VMCALL_TEST"
        \/ \E i \in DOMAIN steps : steps[i].step = "VMCALL_TEST") =>
           \A d \in Cores : core[d].routine \in AfterLaunchDpc
    /\ pc = "BroadcastVirtualize" =>
           \A c \in Cores : (c \in pending) <=> (core[c].routine = "none")
    /\ pc = "BroadcastLaunch" =>
           \A c \in Cores :
               (c \in pending) <=> (core[c].routine = "VmxPerformVirtualizationOnSpecificCore")

C12_Witness ==
    /\ \E i \in DOMAIN steps : steps[i].step = "VMCALL_TEST"
    /\ \E c \in Cores : core[c].routine = "VMCALL_TEST"
    /\ \E c \in Cores : core[c].routine = "VmxVirtualizeCurrentSystem"

IsExecConfiguration(leaf) == leaf.frame = "fake" /\ leaf.x /\ ~leaf.r /\ ~leaf.w

IsDataConfiguration(leaf) == leaf.frame = "original" /\ ~leaf.x

Stepping(p) == p \in HookedPagesList /\ HookedEntryDetails[p].Mtf

C14_UnhookRestoresLeaf ==
    /\ \A p \in Pages \ HookedPagesList : EptLeaf[p] = IdentityLeaf(p)
    /\ DOMAIN HookedEntryDetails = HookedPagesList
    /\ \A p \in HookedPagesList : HookedEntryDetails[p].OriginalEntry = IdentityLeaf(p)

C14_Witness ==
    /\ lastUnhook \in Pages
    /\ HookedPagesList = {}
    /\ EptLeaf[lastUnhook] = IdentityLeaf(lastUnhook)

StringCall == call.fn \in {"VmxCompatibleStrlen", "VmxCompatibleWcslen"}

Returned == call.out.status = "returned"

\* C15: when VmxCompatibleStrlen or VmxCompatibleWcslen returns, CR3 is what
\* it was at entry, and the return value is 0 when a validity check failed.
C15_Cr3RestoredOnEveryReturn ==
    (StringCall /\ Returned) =>
        /\ call.out.cr3 = call.in.OriginalCr3
        /\ call.out.failed => call.out.ret = 0

C15_Witness ==
    /\ StringCall /\ Returned
    /\ call.in.GuestCr3 # call.in.OriginalCr3
    /\ call.out.failed /\ call.out.validated # {}

\* C16: the helpers read a character only from pages that
\* CheckAccessValidityAndSafety has validated since entry.
C16_PagesValidatedBeforeRead ==
    StringCall => call.out.unvalidated = {}

\* C17: after VmxSetupVmcs the VMCS host CR3 is the SYSTEM process directory
\* table base whatever CR3 is live on the core, and the VMCS guest CR3 is the
\* CR3 that is live.
C17_HostCr3IsSystemGuestCr3IsLive ==
    call.fn = "VmxSetupVmcs" =>
        /\ call.out.HostCr3 = "system"
        /\ call.out.GuestCr3 = call.in.s.cr3

C17_Witness ==
    /\ call.fn = "VmxSetupVmcs"
    /\ call.in.s.cr3 = "user"
    /\ call.out.GuestCr3 = "user" /\ call.out.HostCr3 = "system"

\* C18: VmxCheckVmxSupport returns TRUE iff CPUID.1:ECX[5] and
\* IA32_FEATURE_CONTROL.EnableVmxOutsideSmx are set, and leaves the MSR alone.
C18_SupportIffCpuidAndFeatureControl ==
    call.fn = "VmxCheckVmxSupport" =>
        /\ call.out.ret = (call.in.cpuidVmx /\ call.in.msr.EnableVmxOutsideSmx)
        /\ call.out.msr = call.in.msr
        /\ call.out.wrmsr = <<>>

C18_Witness ==
    /\ call.fn = "VmxCheckVmxSupport"
    /\ call.in.cpuidVmx /\ ~call.in.msr.EnableVmxOutsideSmx /\ ~call.in.msr.Lock
    /\ ~call.out.ret

VmreadSucceeded ==
    /\ ~call.out.vmread.fault
    /\ call.out.vmread.status = 0
    /\ call.out.vmread.VmcsLink # "zero"

SingleCoreWrappers ==
    (PlainWrappers \cup ArgumentWrappers)
        \ {"ConfigureEnableMovToControlRegisterExitingOnSingleCore"}

\* C20: a Configure...OnSingleCore(TargetCoreId, arg) call runs its routine
\* once, on core TargetCoreId, with arg as its context, and leaves the
\* configuration of every other core as it was.
C20_RunsOnTargetCoreOnly ==
    call.fn \in SingleCoreWrappers =>
        /\ \E r \in call.out.ran :
              /\ call.out.ran = {r}
              /\ r.core = call.in.TargetCoreId
              /\ r.context = call.in.arg
        /\ \A c \in Cores \ {call.in.TargetCoreId} :
              call.out.cores[c] = call.in.before[c]

C20_Witness ==
    /\ call.fn = "ConfigureChangeIoBitmapOnSingleCore"
    /\ call.in.TargetCoreId = 1 /\ call.in.arg = 1
    /\ call.out.cores[1].IoBitmap = {0, 1}
    /\ call.out.cores[0] = DefaultControls

EferCall ==
    call.fn \in {"ConfigureEnableEferSyscallEventsOnAllProcessors",
                 "ConfigureEnableEferSyscallHookOnSingleCore"}

\* C21: the EFER syscall-hook wrappers set g_IsUnsafeSyscallOrSysretHandling
\* to TRUE for HANDLE_ALL_UD and to FALSE for SAFE_ACCESS_MEMORY before the
\* enable task runs on any core; for any other type the flag keeps its value
\* and the task is dispatched all the same.
C21_FlagSetBeforeDispatch ==
    EferCall =>
        LET type == call.in.SyscallHookType
            expected == IF type = "DEBUGGER_EVENT_SYSCALL_SYSRET_HANDLE_ALL_UD" THEN TRUE
                        ELSE IF type = "DEBUGGER_EVENT_SYSCALL_SYSRET_SAFE_ACCESS_MEMORY"
                             THEN FALSE
                        ELSE call.in.flag
        IN  /\ call.out.flag = expected
            /\ call.out.seen = expected
            /\ call.out.ran # {}
            /\ \A r \in call.out.ran :
                  r.routine = "DpcRoutinePerformEnableEferSyscallHookOnSingleCore"
            /\ {r.core : r \in call.out.ran} =
                  IF call.fn = "ConfigureEnableEferSyscallHookOnSingleCore"
                  THEN {call.in.TargetCoreId} ELSE Cores

C21_Witness ==
    /\ call.fn = "ConfigureEnableEferSyscallHookOnSingleCore"
    /\ ~call.in.flag
    /\ call.in.SyscallHookType = "DEBUGGER_EVENT_SYSCALL_SYSRET_HANDLE_ALL_UD"
    /\ call.out.flag /\ call.out.seen

\* The bits of the fixed register: FIXED0 bits, and the old bits FIXED1 allows.
FixedBits(old, Fixed0, Fixed1) == (BitsOf(old) \cup BitsOf(Fixed0)) \cap BitsOf(Fixed1)

\* C22: after VmxFixCr4AndCr0Bits each of CR0 and CR4 is (old OR FIXED0) AND
\* FIXED1: every FIXED0 bit is set, every bit clear in FIXED1 is clear, and a
\* bit both MSRs leave free keeps its value.
C22_Cr0Cr4AreOldOrFixed0AndFixed1 ==
    call.fn = "VmxFixCr4AndCr0Bits" =>
        \A r \in {<<call.in.Cr0, call.out.Cr0, call.in.msr.IA32_VMX_CR0_FIXED0,
                     call.in.msr.IA32_VMX_CR0_FIXED1>>,
                   <<call.in.Cr4, call.out.Cr4, call.in.msr.IA32_VMX_CR4_FIXED0,
                     call.in.msr.IA32_VMX_CR4_FIXED1>>} :
            LET old == r[1]   new == r[2]   Fixed0 == r[3]   Fixed1 == r[4]
            IN  /\ BitsOf(new) = FixedBits(old, Fixed0, Fixed1)
                /\ BitsOf(Fixed0) \subseteq BitsOf(new)
                /\ BitsOf(new) \subseteq BitsOf(Fixed1)
                /\ \A i \in BitsOf(Fixed1) \ BitsOf(Fixed0) :
                      i \in BitsOf(new) <=> i \in BitsOf(old)

\* A bit is forced on, a bit is forced off and a free bit is kept.
C22_Witness ==
    /\ call.fn = "VmxFixCr4AndCr0Bits"
    /\ call.in.msr.IA32_VMX_CR0_FIXED0 = 1
    /\ call.in.msr.IA32_VMX_CR0_FIXED1 = 1
    /\ call.in.Cr0 = 2
    /\ call.out.Cr0 = 1
    /\ call.in.msr.IA32_VMX_CR4_FIXED0 = 0
    /\ call.in.msr.IA32_VMX_CR4_FIXED1 = 3
    /\ call.in.Cr4 = 2
    /\ call.out.Cr4 = 2

SetupOnAllCores == call.fn = "VmxSetupVmcsOnAllCores"

\* C23: whatever the base address of a core's VMM stack, the host RSP
\* VmxSetupVmcs writes is a multiple of 16 and lies inside
\* [VmmStack, VmmStack + VMM_STACK_SIZE).
C23_HostRspAlignedInsideVmmStack ==
    SetupOnAllCores =>
        \A c \in Cores :
            LET VmmStack == call.in.g_GuestState[c].VmmStack
                HostRsp == call.out[c].VMCS_HOST_RSP
            IN  /\ HostRsp % 16 = 0
                /\ VmmStack <= HostRsp
                /\ HostRsp < VmmStack + VMM_STACK_SIZE

\* A stack that starts on a 16-byte boundary and one that does not.
C23_Witness ==
    /\ SetupOnAllCores
    /\ \E c \in Cores : call.in.g_GuestState[c].VmmStack % 16 = 0
    /\ \E c \in Cores : call.in.g_GuestState[c].VmmStack % 16 # 0
    /\ \A c \in Cores : call.out[c].VMCS_HOST_RSP > 0

BitmapFields ==
    {"VMCS_CTRL_MSR_BITMAP_ADDRESS", "VMCS_CTRL_IO_BITMAP_A_ADDRESS",
     "VMCS_CTRL_IO_BITMAP_B_ADDRESS"}

\* C24: after VmxSetupVmcs on all cores the MSR-bitmap and I/O-bitmap
\* addresses of a core's VMCS are that core's own buffers and no two cores
\* share a bitmap; every EPT pointer is g_EptState->EptPointer and every
\* VPID is VPID_TAG.
C24_OwnBitmapsSharedEptPointerAndVpid ==
    SetupOnAllCores =>
        /\ \A c \in Cores :
              LET VCpu == call.in.g_GuestState[c]
                  vmcs == call.out[c]
              IN  /\ vmcs.VMCS_CTRL_MSR_BITMAP_ADDRESS = VCpu.MsrBitmapPhysicalAddress
                  /\ vmcs.VMCS_CTRL_IO_BITMAP_A_ADDRESS = VCpu.IoBitmapPhysicalAddressA
                  /\ vmcs.VMCS_CTRL_IO_BITMAP_B_ADDRESS = VCpu.IoBitmapPhysicalAddressB
                  /\ vmcs.VMCS_CTRL_EPT_POINTER = call.in.EptPointer
                  /\ vmcs.VIRTUAL_PROCESSOR_ID = VPID_TAG
        /\ \A c \in Cores, d \in Cores :
              c # d =>
                  {call.out[c][f] : f \in BitmapFields} \cap
                      {call.out[d][f] : f \in BitmapFields} = {}

C24_Witness ==
    /\ SetupOnAllCores
    /\ \E c \in Cores, d \in Cores :
          /\ c # d
          /\ call.out[c].VMCS_CTRL_MSR_BITMAP_ADDRESS # call.out[d].VMCS_CTRL_MSR_BITMAP_ADDRESS
          /\ call.out[c].VMCS_CTRL_EPT_POINTER = call.out[d].VMCS_CTRL_EPT_POINTER
          /\ call.out[c].VIRTUAL_PROCESSOR_ID = call.out[d].VIRTUAL_PROCESSOR_ID

IsPrefix(a, b) == Len(a) <= Len(b) /\ a = SubSeq(b, 1, Len(a))
Executed(s, ops) == \E i \in 1 .. Len(s.log) : s.log[i].op \in ops

\* C25: on each core the steps come in the order CR4.VMXE, CR0/CR4 fix,
\* VMXON region, VMCS region, and later VMCLEAR, VMPTRLD, VMCS setup,
\* HasLaunched := TRUE, VMLAUNCH, each only after the one before succeeded;
\* the setup and VMLAUNCH are not reached after a failed VMCLEAR or VMPTRLD.
C25_BringUpStepsInOrder ==
    \A c \in Cores :
        LET s == core[c]
        IN  /\ s.routine = "VmxPerformVirtualizationOnSpecificCore" =>
                  IsPrefix(Ops(s), <<"CR4_SET_VMXE", "FIX_CR0_CR4", "VMXON", "ALLOC_VMCS">>)
            /\ s.routine = "VmxVirtualizeCurrentSystem" =>
                  /\ Executed(s, {"VMCLEAR", "VMCLEAR_FAIL"}) =>
                        /\ s.region["VmxonRegion"] # "none"
                        /\ s.region["VmcsRegion"] # "none"
                  /\ Executed(s, {"SETUP_VMCS", "VMLAUNCH", "VMLAUNCH_FAIL"}) =>
                        /\ IsPrefix(<<"VMCLEAR", "VMPTRLD", "SETUP_VMCS">>, Ops(s))
                        /\ ~Executed(s, {"VMCLEAR_FAIL", "VMPTRLD_FAIL"})
                  /\ Executed(s, {"VMPTRLD", "VMPTRLD_FAIL"}) => Ops(s)[1] = "VMCLEAR"
                  /\ Executed(s, {"VMLAUNCH"}) =>
                        /\ IsPrefix(<<"VMCLEAR", "VMPTRLD", "SETUP_VMCS", "VMLAUNCH">>, Ops(s))
                        /\ s.HasLaunched

\* C26: after a successful VMLAUNCH the guest starts at AsmVmxRestoreState
\* with RSP = the GuestStack given to VmxVirtualizeCurrentSystem, and every
\* later VM exit of the core enters AsmVmexitHandler.
C26_GuestStartsAtRestoreStateExitsEnterHandler ==
    (call.fn = "VmxVirtualizeCurrentSystem" /\ call.out.s.mode = "nonroot") =>
        /\ call.out.s.GuestRip = AsmVmxRestoreState
        /\ call.out.s.GuestRsp = call.in.GuestStack
        /\ call.out.launched =
              <<[rip |-> AsmVmxRestoreState, rsp |-> call.in.GuestStack, mode |-> "nonroot"]>>
        /\ Len(call.out.exits) = Len(call.in.at)
        /\ \A i \in 1 .. Len(call.out.exits) :
              /\ call.out.exits[i].rip = AsmVmexitHandler
              /\ call.out.exits[i].mode = "root"

\* The guest has moved away from its entry point and exited twice.
C26_Witness ==
    /\ call.fn = "VmxVirtualizeCurrentSystem"
    /\ call.out.s.mode = "nonroot"
    /\ Len(call.out.exits) = MaxExits
    /\ call.in.at[1].rip = AsmVmxVmcallAddress
    /\ call.out.resumed[1].rip = AsmVmxVmcallAddress
    /\ call.out.exits[MaxExits].rip = AsmVmexitHandler

CharSize == IF call.fn = "VmxCompatibleWcslen" THEN 2 ELSE 1

\* The characters before the first terminator of the string at call.in.S,
\* or -1 when the memory holds no terminator from there on.
StringLength ==
    LET IsTerminator(k) ==
            (call.in.S + k * CharSize) .. (call.in.S + (k + 1) * CharSize - 1)
                \subseteq call.in.zeros
        ks == {k \in 0 .. (MemPages + 1) * PageSize : IsTerminator(k)}
    IN  IF ks = {} THEN -1 ELSE CHOOSE k \in ks : \A j \in ks : k <= j

\* C28: VmxCompatibleStrlen and VmxCompatibleWcslen return 0 exactly when an
\* access-validity check failed, and otherwise the number of characters
\* (16-bit units for the wide variant) before the first terminator.
C28_ZeroIffCheckFailedElseLength ==
    (StringCall /\ Returned) =>
        /\ call.out.ret = 0 <=> call.out.failed
        /\ ~call.out.failed => call.out.ret = StringLength

\* C29: ConfigureEnableMovToControlRegisterExitingOnSingleCore hands the
\* routine on the target core the caller's DEBUGGER_BROADCASTING_OPTIONS
\* object, as the other single-core calls hand over their payload.
C29_CallerObjectDelivered ==
    call.fn = "ConfigureEnableMovToControlRegisterExitingOnSingleCore" =>
        \E r \in call.out.ran :
            /\ call.out.ran = {r}
            /\ r.core = call.in.TargetCoreId
            /\ r.context = call.in.arg

Buffers == {"VmmStack", "MsrBitmap", "IoBitmapA", "IoBitmapB"}

\* VMLAUNCH was executed on core c, or the core shows that it was.
LaunchAttempted(c) ==
    \/ core[c].routine = "VmxVirtualizeCurrentSystem"
          /\ Executed(core[c], {"VMLAUNCH", "VMLAUNCH_FAIL"})
    \/ core[c].HasLaunched
    \/ core[c].vmcs = "launched"
    \/ core[c].mode = "nonroot"

\* C30: no core executes VMLAUNCH before the VMM stack, MSR bitmap and I/O
\* bitmaps of every logical processor and the invalid-MSR bitmap are
\* allocated; when one of these allocations fails VmxInitialize returns FALSE
\* and no core is launched.
C30_NoLaunchBeforeEveryBufferAllocated ==
    /\ (\E c \in Cores : LaunchAttempted(c)) =>
           /\ \A d \in Cores : \A r \in Buffers : core[d].region[r] # "none"
           /\ heap["g_MsrBitmapInvalidMsrs"] # "none"
    /\ FailedStep({"AllocatePerCoreBuffers", "VmxAllocateInvalidMsrBimap"}) =>
           /\ initRet = "FALSE"
           /\ \A c \in Cores : ~LaunchAttempted(c)

C30_Witness ==
    /\ \E c \in Cores : core[c].routine = "VmxVirtualizeCurrentSystem"
                           /\ Executed(core[c], {"VMLAUNCH"})
    /\ \E c \in Cores : ~LaunchAttempted(c)
    /\ \A d \in Cores : \A r \in Buffers : core[d].region[r] = "live"
    /\ heap["g_MsrBitmapInvalidMsrs"] = "live"

\* C31: VMXOFF is executed on a core only while the core is in VMX
\* operation, on every path: VmxVmxoff, a VMCLEAR failure inside it or inside
\* VmxVirtualizeCurrentSystem, a VMLAUNCH or VMRESUME failure, VmxTerminate.
C31_VmxoffOnlyInVmxOperation ==
    \A c \in Cores :
        \A i \in DOMAIN core[c].log :
            core[c].log[i].op = "VMXOFF" => core[c].log[i].mode # "off"

\* C32: between the launch and VMXOFF routines HasLaunched is TRUE exactly
\* when the core is in VMX operation with a launched guest; after every path
\* that executes VMXOFF on the core HasLaunched is FALSE.
C32_HasLaunchedIffGuestLaunched ==
    \A c \in Cores :
        /\ core[c].HasLaunched <=> (core[c].mode # "off" /\ core[c].vmcs = "launched")
        /\ HasOp(core[c], "VMXOFF") => ~core[c].HasLaunched

GuestLaunched(c) == core[c].mode # "off" /\ core[c].vmcs = "launched"

\* C33: the EPT page tables, g_EptState and g_GuestState are never freed
\* while a core is in VMX operation with a launched guest, also when
\* VmxTerminate failed on a core during the terminate broadcast.
C33_GlobalsFreedOnlyWithNoGuestLaunched ==
    (\E r \in {"EptPageTable", "g_EptState", "g_GuestState"} : heap[r] = "freed") =>
        \A c \in Cores : ~GuestLaunched(c)

\* The globals are freed after VmxTerminate returned FALSE on a core.
C33_Witness ==
    /\ \A r \in {"EptPageTable", "g_EptState", "g_GuestState"} : heap[r] = "freed"
    /\ \E c \in Cores : core[c].routine = "VmxTerminate" /\ core[c].ret = "FALSE"
    /\ \E c \in Cores : core[c].routine = "VmxTerminate" /\ core[c].ret = "TRUE"
                           /\ HasOp(core[c], "VMXOFF")

\* C34: VMCLEAR, VMPTRLD and VMLAUNCH are attempted on a core only if
\* VmxPerformVirtualizationOnSpecificCore succeeded on it; after a per-core
\* region allocation failure VmxInitialize returns FALSE and the launch
\* broadcast is not issued.
C34_LaunchStepsOnlyAfterSpecificCoreSucceeded ==
    \A c \in Cores :
        /\ (core[c].routine = "VmxVirtualizeCurrentSystem" /\ Ops(core[c]) # <<>>) =>
               /\ core[c].region["VmxonRegion"] # "none"
               /\ core[c].region["VmcsRegion"] # "none"
        /\ (core[c].routine = "VmxPerformVirtualizationOnSpecificCore"
                /\ core[c].ret = "FALSE" /\ pc # "BroadcastVirtualize") =>
               /\ pc = "init_failed"
               /\ initRet = "FALSE"
               /\ "DpcRoutineInitializeGuest" \notin {steps[i].step : i \in DOMAIN steps}

\* C35: a core's VMXON region, VMCS region, VMM stack, MSR bitmap and I/O
\* bitmaps are freed only after the core has executed VMXOFF and has left VMX
\* operation, and none of them is freed twice.
C35_RegionsFreedOnlyAfterVmxoff ==
    \A c \in Cores :
        LET s == core[c]
        IN  /\ (\E r \in CoreRes : s.region[r] = "freed") =>
                   (s.mode = "off" /\ HasOp(s, "VMXOFF"))
            /\ (s.routine = "VmxTerminate" /\ s.fault) =>
                   \A r \in CoreRes : s.region[r] # "freed"

\* C36: enabling the EFER syscall hook on a single core does not change the
\* SYSCALL/SYSRET handling mode in effect on any other core that already has
\* the hook enabled.
C36_SingleCoreEnableKeepsModeOfOtherCores ==
    call.fn = "ConfigureEnableEferSyscallHookOnSingleCore" =>
        \A d \in Cores \ {call.in.TargetCoreId} :
            call.in.before[d].EferSyscallHook =>
                SyscallHandlingMode(call.out.flag, call.out.cores[d]) =
                    SyscallHandlingMode(call.in.flag, call.in.before[d])

CheckFlag == g_CheckPageFaultsAndMov2Cr3VmexitsWithUserDebugger

\* C37: whenever a core has MOV-to-CR3 exiting enabled the flag
\* g_CheckPageFaultsAndMov2Cr3VmexitsWithUserDebugger is TRUE, so no core takes
\* a MOV-to-CR3 exit while the flag is FALSE; after Enable returns the flag is
\* TRUE, after Disable returns it is FALSE with exiting disabled on every core.
C37_ExitingOnlyWhileFlagSet ==
    /\ (\E c \in Cores : Cr3LoadExiting[c]) => CheckFlag
    /\ \A c \in Cores : Mov2Cr3Exit[c] # "FALSE"
    /\ configure.routine = "none" =>
           /\ configure.returned = "ConfigureEnableMovToCr3ExitingOnAllProcessors" => CheckFlag
           /\ configure.returned = "ConfigureDisableMovToCr3ExitingOnAllProcessors" =>
                  (~CheckFlag /\ \A c \in Cores : ~Cr3LoadExiting[c])
====
